---------------------------- MODULE Spec2Model ----------------------------
(***************************************************************************)
(* Line4UP (Connect 4): the board, the win detector, the minimax engine,   *)
(* the match controller (Game) and the application's event handlers.       *)
(*                                                                         *)
(* A Board object is modelled by its grid: a function from row (0 is the   *)
(* bottom) to a function from column to a cell value.  Methods that mutate *)
(* the object return the object's grid after the call together with the    *)
(* JavaScript return value.                                                *)
(***************************************************************************)
EXTENDS Integers, Sequences, FiniteSets

(***************************************************************************)
(* Board.js                                                                *)
(***************************************************************************)
ROWS == 6
COLS == 7
EMPTY == 0
PLAYER_1 == 1
PLAYER_2 == 2

\* JavaScript null: a value different from every cell value and index.
null == -2

Rows == 0 .. (ROWS - 1)
Cols == 0 .. (COLS - 1)

\* Board.reset: six rows of seven EMPTY cells.
Board_reset == [row \in Rows |-> [col \in Cols |-> EMPTY]]

getCell(grid, row, col) ==
    IF row < 0 \/ row >= ROWS \/ col < 0 \/ col >= COLS
    THEN null
    ELSE grid[row][col]

setCell(grid, row, col, value) ==
    IF row >= 0 /\ row < ROWS /\ col >= 0 /\ col < COLS
    THEN [grid EXCEPT ![row][col] = value]
    ELSE grid

\* findLowestRow's loop taking the grid's last row for the bottom: the scan
\* runs from row ROWS - 1 down.
RECURSIVE findLowestRowFromTop(_, _, _)
findLowestRowFromTop(grid, col, row) ==
    IF row >= ROWS THEN -1
    ELSE IF grid[ROWS - 1 - row][col] = EMPTY THEN ROWS - 1 - row
    ELSE findLowestRowFromTop(grid, col, row + 1)

\* findLowestRow's loop ending on the last row it looked at instead of -1.
RECURSIVE findLowestRowFromOrLast(_, _, _)
findLowestRowFromOrLast(grid, col, row) ==
    IF row >= ROWS THEN ROWS - 1
    ELSE IF grid[row][col] = EMPTY THEN row
    ELSE findLowestRowFromOrLast(grid, col, row + 1)

\* The for loop of findLowestRow, entered at `row`.
RECURSIVE findLowestRowFrom(_, _, _)
findLowestRowFrom(grid, col, row) ==
    IF row >= ROWS THEN -1
    ELSE IF grid[row][col] = EMPTY THEN row
    ELSE findLowestRowFrom(grid, col, row + 1)

\* findLowestRow without its final "return -1": a full column yields its
\* top row.
findLowestRowNeverFull(grid, col) ==
    IF col < 0 \/ col >= COLS THEN -1
    ELSE IF findLowestRowFrom(grid, col, 0) = -1 THEN ROWS - 1
    ELSE findLowestRowFrom(grid, col, 0)

findLowestRow(grid, col) ==
    IF col < 0 \/ col >= COLS THEN -1 ELSE findLowestRowFrom(grid, col, 0)

isColumnFull(grid, col) == findLowestRow(grid, col) = -1

\* dropToken: the returned row and the grid after the call.
dropToken(grid, col, player) ==
    LET row == findLowestRow(grid, col)
    IN  IF row = -1
        THEN [row |-> -1, grid |-> grid]
        ELSE [row |-> row, grid |-> [grid EXCEPT ![row][col] = player]]

\* A board that never reports itself full.
isFullNever(grid) == FALSE

isFull(grid) == \A col \in Cols : isColumnFull(grid, col)

\* The for loop of getValidMoves, entered at `col`: the non-full columns from
\* `col` on, pushed in ascending order.
RECURSIVE collectColumns(_, _)
collectColumns(grid, col) ==
    IF col >= COLS THEN << >>
    ELSE IF ~isColumnFull(grid, col)
         THEN <<col>> \o collectColumns(grid, col + 1)
         ELSE collectColumns(grid, col + 1)

\* getValidMoves without its isColumnFull test: every column is pushed.
getValidMovesUnfiltered(grid) == [i \in 1 .. COLS |-> i - 1]

getValidMoves(grid) == collectColumns(grid, 0)

\* clone copying the rows in reverse order.
cloneUpsideDown(grid) ==
    [row \in Rows |-> [col \in Cols |-> grid[ROWS - 1 - row][col]]]

\* Board.clone: a new Board whose cells are copied one by one.
clone(grid) == [row \in Rows |-> [col \in Cols |-> grid[row][col]]]

(***************************************************************************)
(* GameLogic.js                                                            *)
(***************************************************************************)
DIRECTIONS == << <<0, 1>>, <<1, 0>>, <<1, 1>>, <<1, -1>> >>

isValidPosition(row, col) == row >= 0 /\ row < ROWS /\ col >= 0 /\ col < COLS

\* One while loop of getConnectedPositions: the cells collected walking from
\* (r, c) by steps of (dRow, dCol), in the order they are met.
RECURSIVE walk(_, _, _, _, _, _)
walk(grid, r, c, dRow, dCol, player) ==
    IF isValidPosition(r, c) /\ getCell(grid, r, c) = player
    THEN << <<r, c>> >> \o walk(grid, r + dRow, c + dCol, dRow, dCol, player)
    ELSE << >>

\* unshift replaced by push: the negative walk kept in the order it is met.
ReverseNot(s) == s

Reverse(s) == [i \in 1 .. Len(s) |-> s[Len(s) + 1 - i]]

\* push for the positive walk, unshift for the negative walk.
getConnectedPositions(grid, row, col, dRow, dCol, player) ==
    Reverse(walk(grid, row - dRow, col - dCol, -dRow, -dCol, player))
        \o << <<row, col>> >>
        \o walk(grid, row + dRow, col + dCol, dRow, dCol, player)

\* checkWin's "return null": a result with no player and no positions.
noWin == [player |-> null, positions |-> << >>]

\* The loop over DIRECTIONS of checkWin, entered at direction number d.
RECURSIVE checkWinFrom(_, _, _, _, _)
checkWinFrom(grid, row, col, player, d) ==
    IF d > Len(DIRECTIONS) THEN noWin
    ELSE LET positions == getConnectedPositions(grid, row, col,
                              DIRECTIONS[d][1], DIRECTIONS[d][2], player)
         IN  IF Len(positions) >= 4
             THEN [player |-> player, positions |-> SubSeq(positions, 1, 4)]
             ELSE checkWinFrom(grid, row, col, player, d + 1)

\* The loop entered at its second direction: horizontal runs are not seen.
checkWinSkipsFirst(grid, row, col, player) ==
    checkWinFrom(grid, row, col, player, 2)

checkWin(grid, row, col, player) == checkWinFrom(grid, row, col, player, 1)

\* isWinningMove without the removal of the token it places.
isWinningMoveKeepsToken(grid, col, player) ==
    LET row == findLowestRow(grid, col)
        placed == setCell(grid, row, col, player)
    IN  IF row = -1 THEN [grid |-> grid, result |-> FALSE]
        ELSE [grid |-> placed,
              result |-> checkWin(placed, row, col, player) # noWin]

\* isWinningMove(board, col, player): the value returned and the grid of
\* the board afterwards.
isWinningMove(grid, col, player) ==
    LET row == findLowestRow(grid, col)
        placed == setCell(grid, row, col, player)
    IN  IF row = -1 THEN [grid |-> grid, result |-> FALSE]
        ELSE [grid |-> setCell(placed, row, col, EMPTY),
              result |-> checkWin(placed, row, col, player) # noWin]

\* The loop of getWinningMoves from column col on.
RECURSIVE getWinningMovesFrom(_, _, _, _)
getWinningMovesFrom(grid, player, col, winningMoves) ==
    IF col >= COLS THEN [grid |-> grid, result |-> winningMoves]
    ELSE IF isColumnFull(grid, col)
        THEN getWinningMovesFrom(grid, player, col + 1, winningMoves)
    ELSE LET tried == isWinningMove(grid, col, player)
         IN  getWinningMovesFrom(tried.grid, player, col + 1,
                 IF tried.result THEN Append(winningMoves, col)
                 ELSE winningMoves)

\* getWinningMoves(board, player)
getWinningMoves(grid, player) == getWinningMovesFrom(grid, player, 0, << >>)

(***************************************************************************)
(* AI.js                                                                   *)
(***************************************************************************)
AI_PLAYER == PLAYER_2
\* The constructor giving both sides the engine's token.
HUMAN_PLAYER_Engine == PLAYER_2
HUMAN_PLAYER == PLAYER_1

DIFFICULTY == [EASY |-> "easy", MEDIUM |-> "medium", HARD |-> "hard"]

\* Every tier one ply deeper.
DEPTH_CONFIG_Deeper == [easy |-> 3, medium |-> 5, hard |-> 7]

DEPTH_CONFIG == [easy |-> 2, medium |-> 4, hard |-> 6]

SCORE == [WIN |-> 100000, THREE_IN_ROW |-> 100, TWO_IN_ROW |-> 10,
          CENTER_BONUS |-> 3, BLOCK_THREE |-> 80, BLOCK_TWO |-> 8]

\* JavaScript Infinity: above every score minimax can return.
Infinity == 1000000000

Max(a, b) == IF a >= b THEN a ELSE b
Min(a, b) == IF a <= b THEN a ELSE b
Abs(a) == IF a < 0 THEN -a ELSE a

\* The windows of four cells in the order the loops of checkWinner and of
\* evaluateAllWindows visit them: horizontal, vertical, diagonal of positive
\* slope, diagonal of negative slope.
horizontalWindows ==
    [i \in 1 .. ROWS * (COLS - 3) |->
        LET row == (i - 1) \div (COLS - 3)
            col == (i - 1) % (COLS - 3)
        IN  << <<row, col>>, <<row, col + 1>>, <<row, col + 2>>, <<row, col + 3>> >>]

verticalWindows ==
    [i \in 1 .. COLS * (ROWS - 3) |->
        LET col == (i - 1) \div (ROWS - 3)
            row == (i - 1) % (ROWS - 3)
        IN  << <<row, col>>, <<row + 1, col>>, <<row + 2, col>>, <<row + 3, col>> >>]

positiveDiagonalWindows ==
    [i \in 1 .. (ROWS - 3) * (COLS - 3) |->
        LET row == (i - 1) \div (COLS - 3)
            col == (i - 1) % (COLS - 3)
        IN  << <<row, col>>, <<row + 1, col + 1>>,
               <<row + 2, col + 2>>, <<row + 3, col + 3>> >>]

negativeDiagonalWindows ==
    [i \in 1 .. (ROWS - 3) * (COLS - 3) |->
        LET row == 3 + (i - 1) \div (COLS - 3)
            col == (i - 1) % (COLS - 3)
        IN  << <<row, col>>, <<row - 1, col + 1>>,
               <<row - 2, col + 2>>, <<row - 3, col + 3>> >>]

\* The scan without its first pair of loops: no horizontal windows.
allWindowsNoRows ==
    verticalWindows \o positiveDiagonalWindows \o negativeDiagonalWindows

allWindows ==
    horizontalWindows \o verticalWindows
        \o positiveDiagonalWindows \o negativeDiagonalWindows

\* checkWinner's condition with its last comparison left out.
fourEqualOfThree(grid, w) ==
    LET cell == getCell(grid, w[1][1], w[1][2])
    IN  /\ cell # EMPTY
        /\ cell = getCell(grid, w[2][1], w[2][2])
        /\ cell = getCell(grid, w[3][1], w[3][2])

\* The condition of each of the four if statements of checkWinner.
fourEqual(grid, w) ==
    LET cell == getCell(grid, w[1][1], w[1][2])
    IN  /\ cell # EMPTY
        /\ cell = getCell(grid, w[2][1], w[2][2])
        /\ cell = getCell(grid, w[3][1], w[3][2])
        /\ cell = getCell(grid, w[4][1], w[4][2])

\* checkWinner returns at the first window, in visiting order, of four equal
\* non-empty cells.
\* checkWinner with the scan of the rows alone.
checkWinnerRowsOnly(grid) ==
    LET hits == {i \in 1 .. Len(horizontalWindows) :
                    fourEqual(grid, horizontalWindows[i])}
    IN  IF hits = {} THEN null
        ELSE LET first == CHOOSE i \in hits : \A j \in hits : i <= j
             IN  getCell(grid, horizontalWindows[first][1][1],
                         horizontalWindows[first][1][2])

checkWinner(grid) ==
    LET hits == {i \in 1 .. Len(allWindows) : fourEqual(grid, allWindows[i])}
    IN  IF hits = {} THEN null
        ELSE LET first == CHOOSE i \in hits : \A j \in hits : i <= j
             IN  getCell(grid, allWindows[first][1][1], allWindows[first][1][2])

isBoardFull(grid) == \A col \in Cols : isColumnFull(grid, col)

\* window.filter(cell => cell === v).length
countCells(window, v) ==
    (IF window[1] = v THEN 1 ELSE 0) + (IF window[2] = v THEN 1 ELSE 0)
        + (IF window[3] = v THEN 1 ELSE 0) + (IF window[4] = v THEN 1 ELSE 0)

\* evaluateWindow without its tests on emptyCount.
evaluateWindowAnyFill(window) ==
    LET aiCount == countCells(window, AI_PLAYER)
        humanCount == countCells(window, HUMAN_PLAYER)
        aiScore ==
            IF aiCount = 4 THEN SCORE.WIN
            ELSE IF aiCount = 3 THEN SCORE.THREE_IN_ROW
            ELSE IF aiCount = 2 THEN SCORE.TWO_IN_ROW
            ELSE 0
        humanScore ==
            IF humanCount = 4 THEN SCORE.WIN
            ELSE IF humanCount = 3 THEN SCORE.BLOCK_THREE
            ELSE IF humanCount = 2 THEN SCORE.BLOCK_TWO
            ELSE 0
    IN  aiScore - humanScore

evaluateWindow(window) ==
    LET aiCount == countCells(window, AI_PLAYER)
        humanCount == countCells(window, HUMAN_PLAYER)
        emptyCount == countCells(window, EMPTY)
        aiScore ==
            IF aiCount = 4 THEN SCORE.WIN
            ELSE IF aiCount = 3 /\ emptyCount = 1 THEN SCORE.THREE_IN_ROW
            ELSE IF aiCount = 2 /\ emptyCount = 2 THEN SCORE.TWO_IN_ROW
            ELSE 0
        humanScore ==
            IF humanCount = 4 THEN SCORE.WIN
            ELSE IF humanCount = 3 /\ emptyCount = 1 THEN SCORE.BLOCK_THREE
            ELSE IF humanCount = 2 /\ emptyCount = 2 THEN SCORE.BLOCK_TWO
            ELSE 0
    IN  aiScore - humanScore

\* The array of four getCell results built for the window w.
windowCells(grid, w) ==
    << getCell(grid, w[1][1], w[1][2]), getCell(grid, w[2][1], w[2][2]),
       getCell(grid, w[3][1], w[3][2]), getCell(grid, w[4][1], w[4][2]) >>

\* The four loop nests of evaluateAllWindows, entered at the i-th window.
RECURSIVE evaluateWindowsFrom(_, _)
evaluateWindowsFrom(grid, i) ==
    IF i > Len(allWindows) THEN 0
    ELSE evaluateWindow(windowCells(grid, allWindows[i]))
             + evaluateWindowsFrom(grid, i + 1)

evaluateAllWindows(grid) == evaluateWindowsFrom(grid, 1)

\* The center-column loop of evaluateBoard, entered at `row`.
RECURSIVE centerScoreFrom(_, _)
centerScoreFrom(grid, row) ==
    IF row >= ROWS THEN 0
    ELSE LET centerCol == COLS \div 2
             here == IF getCell(grid, row, centerCol) = AI_PLAYER
                         THEN SCORE.CENTER_BONUS
                     ELSE IF getCell(grid, row, centerCol) = HUMAN_PLAYER
                         THEN -SCORE.CENTER_BONUS
                     ELSE 0
         IN  here + centerScoreFrom(grid, row + 1)

evaluateBoard(grid) == centerScoreFrom(grid, 0) + evaluateAllWindows(grid)

\* The comparator of orderMoves.
compareMoves(a, b) ==
    LET center == COLS \div 2 IN Abs(center - a) - Abs(center - b)

\* Array.prototype.sort is stable: a move is placed after every move that
\* does not compare greater than it.
RECURSIVE insertMove(_, _)
insertMove(sorted, m) ==
    IF sorted = << >> THEN <<m>>
    ELSE IF compareMoves(Head(sorted), m) <= 0
         THEN <<Head(sorted)>> \o insertMove(Tail(sorted), m)
         ELSE <<m>> \o sorted

RECURSIVE sortMoves(_, _)
sortMoves(moves, n) ==
    IF n = 0 THEN << >> ELSE insertMove(sortMoves(moves, n - 1), moves[n])

orderMoves(moves) == sortMoves(moves, Len(moves))

\* The hypothetical token dropped on `board` itself.
simulateMoveInPlace(board, col, player) ==
    LET dropped == dropToken(board, col, player).grid
    IN  [board |-> dropped, boardCopy |-> dropped]

\* "const boardCopy = board.clone(); boardCopy.dropToken(col, player)": the
\* grid of `board` and the grid of boardCopy after the two statements.
simulateMove(board, col, player) ==
    LET boardCopy == clone(board)
    IN  [board |-> board, boardCopy |-> dropToken(boardCopy, col, player).grid]

\* The break test with its comparison reversed.
cutoffReversed(alpha, beta) == alpha <= beta

\* The test of both break statements of minimax.
cutoff(alpha, beta) == beta <= alpha

\* minimax: the returned score and the grid of `board` after the call.
\* maximizeFrom and minimizeFrom are the two for loops, entered at the i-th
\* ordered move with the loop's running maxScore / minScore and alpha / beta.
RECURSIVE minimax(_, _, _, _, _)
RECURSIVE maximizeFrom(_, _, _, _, _, _, _)
RECURSIVE minimizeFrom(_, _, _, _, _, _, _)

\* minimax with the depth test moved before the tests for a winner.
minimaxDepthFirst(board, depth, alpha, beta, isMaximizing) ==
    LET winner == checkWinner(board)
    IN  IF depth = 0
            THEN [score |-> evaluateBoard(board), board |-> board]
        ELSE IF winner = AI_PLAYER
            THEN [score |-> SCORE.WIN + depth, board |-> board]
        ELSE IF winner = HUMAN_PLAYER
            THEN [score |-> -SCORE.WIN - depth, board |-> board]
        ELSE IF isBoardFull(board)
            THEN [score |-> 0, board |-> board]
        ELSE LET orderedMoves == orderMoves(getValidMoves(board))
             IN  IF isMaximizing
                 THEN maximizeFrom(board, depth, alpha, beta, orderedMoves, 1,
                                   -Infinity)
                 ELSE minimizeFrom(board, depth, alpha, beta, orderedMoves, 1,
                                   Infinity)

minimax(board, depth, alpha, beta, isMaximizing) ==
    LET winner == checkWinner(board)
    IN  IF winner = AI_PLAYER
            THEN [score |-> SCORE.WIN + depth, board |-> board]
        ELSE IF winner = HUMAN_PLAYER
            THEN [score |-> -SCORE.WIN - depth, board |-> board]
        ELSE IF isBoardFull(board)
            THEN [score |-> 0, board |-> board]
        ELSE IF depth = 0
            THEN [score |-> evaluateBoard(board), board |-> board]
        ELSE LET orderedMoves == orderMoves(getValidMoves(board))
             IN  IF isMaximizing
                 THEN maximizeFrom(board, depth, alpha, beta, orderedMoves, 1,
                                   -Infinity)
                 ELSE minimizeFrom(board, depth, alpha, beta, orderedMoves, 1,
                                   Infinity)

maximizeFrom(board, depth, alpha, beta, orderedMoves, i, maxScore) ==
    IF i > Len(orderedMoves) THEN [score |-> maxScore, board |-> board]
    ELSE LET sim == simulateMove(board, orderedMoves[i], AI_PLAYER)
             score == minimax(sim.boardCopy, depth - 1, alpha, beta, FALSE).score
             newMax == Max(maxScore, score)
             newAlpha == Max(alpha, score)
         IN  IF cutoff(newAlpha, beta)
             THEN [score |-> newMax, board |-> sim.board]
             ELSE maximizeFrom(sim.board, depth, newAlpha, beta, orderedMoves,
                               i + 1, newMax)

minimizeFrom(board, depth, alpha, beta, orderedMoves, i, minScore) ==
    IF i > Len(orderedMoves) THEN [score |-> minScore, board |-> board]
    ELSE LET sim == simulateMove(board, orderedMoves[i], HUMAN_PLAYER)
             score == minimax(sim.boardCopy, depth - 1, alpha, beta, TRUE).score
             newMin == Min(minScore, score)
             newBeta == Min(beta, score)
         IN  IF cutoff(alpha, newBeta)
             THEN [score |-> newMin, board |-> sim.board]
             ELSE minimizeFrom(sim.board, depth, alpha, newBeta, orderedMoves,
                               i + 1, newMin)

\* "DEPTH_CONFIG[this.difficulty] || 4"
\* A JavaScript number as far as the depth arithmetic needs it: an integer
\* or NaN.
number(n) == [isNaN |-> FALSE, n |-> n]
NaN == [isNaN |-> TRUE, n |-> 0]

\* d - 1
minusOne(d) == IF d.isNaN THEN NaN ELSE number(d.n - 1)

\* d === 0
isZero(d) == ~d.isNaN /\ d.n = 0

\* Names DEPTH_CONFIG, an object literal, inherits from Object.prototype:
\* DEPTH_CONFIG[name] is a function, which is truthy.
InheritedKeys == {"constructor"}

\* const depth = DEPTH_CONFIG[this.difficulty] || 4, as a number: the
\* configured depth for a tier, 4 for a name DEPTH_CONFIG does not have,
\* and for an inherited name a function, with which depth - 1 is NaN.
configuredDepth(difficulty) ==
    IF difficulty \in DOMAIN DEPTH_CONFIG
    THEN number(DEPTH_CONFIG[difficulty])
    ELSE IF difficulty \in InheritedKeys THEN NaN
    ELSE number(4)

\* The same for the difficulty values whose depth is an integer: the tiers
\* and the names DEPTH_CONFIG neither has nor inherits.
searchDepth(difficulty) ==
    IF difficulty \in DOMAIN DEPTH_CONFIG THEN DEPTH_CONFIG[difficulty] ELSE 4

\* The comparison of getBestMove with >= for >.
improvesOrTies(score, bestScore) == score >= bestScore

\* "if (score > bestScore)": whether the move just scored replaces bestMove.
improves(score, bestScore) == score > bestScore

\* The for loop of getBestMove, entered at the i-th ordered move: the scores
\* of the moves visited so far, bestMove, and the grid of `board`.
RECURSIVE searchFrom(_, _, _, _, _, _, _)
searchFrom(board, depth, orderedMoves, i, bestScore, bestMove, scores) ==
    IF i > Len(orderedMoves)
    THEN [move |-> bestMove, board |-> board, scores |-> scores]
    ELSE LET col == orderedMoves[i]
             sim == simulateMove(board, col, AI_PLAYER)
             score == minimax(sim.boardCopy, depth - 1, -Infinity, Infinity,
                              FALSE).score
         IN  IF improves(score, bestScore)
             THEN searchFrom(sim.board, depth, orderedMoves, i + 1, score, col,
                             Append(scores, score))
             ELSE searchFrom(sim.board, depth, orderedMoves, i + 1, bestScore,
                             bestMove, Append(scores, score))

\* Math.random() is a multiple of 1 / RandomSteps in [0, 1).
RandomSteps == 10
RandomDraws == 0 .. (RandomSteps - 1)

\* Math.random() < 0.6, for the draw r / RandomSteps
randomBranch(r) == r * 10 < 6 * RandomSteps

\* Math.floor(Math.random() * n), for the draw r / RandomSteps
randomIndex(r, n) == (r * n) \div RandomSteps

\* getBestMove with the stored difficulty and the two values Math.random()
\* returns when it is called: the returned column, the grid of `board`
\* after the call, and the scores given to the ordered moves (empty when the
\* search is skipped).
\* getBestMove with the random branch taken at every difficulty.
getBestMoveRandomAtEveryTier(board, difficulty, r1, r2) ==
    LET validMoves == getValidMoves(board)
    IN  IF Len(validMoves) = 0
            THEN [move |-> -1, board |-> board, scores |-> << >>]
        ELSE IF Len(validMoves) = 1
            THEN [move |-> validMoves[1], board |-> board, scores |-> << >>]
        ELSE IF randomBranch(r1)
            THEN [move |-> validMoves[randomIndex(r2, Len(validMoves)) + 1],
                  board |-> board, scores |-> << >>]
        ELSE searchFrom(board, searchDepth(difficulty), orderMoves(validMoves),
                        1, -Infinity, validMoves[1], << >>)

getBestMove(board, difficulty, r1, r2) ==
    LET validMoves == getValidMoves(board)
    IN  IF Len(validMoves) = 0
            THEN [move |-> -1, board |-> board, scores |-> << >>]
        ELSE IF Len(validMoves) = 1
            THEN [move |-> validMoves[1], board |-> board, scores |-> << >>]
        ELSE IF difficulty = DIFFICULTY.EASY /\ randomBranch(r1)
            THEN [move |-> validMoves[randomIndex(r2, Len(validMoves)) + 1],
                  board |-> board, scores |-> << >>]
        ELSE searchFrom(board, searchDepth(difficulty), orderMoves(validMoves),
                        1, -Infinity, validMoves[1], << >>)

(***************************************************************************)
(* Game.js                                                                 *)
(***************************************************************************)
GAME_STATE == [WAITING |-> "waiting", PLAYING |-> "playing", WIN |-> "win",
               DRAW |-> "draw", ANIMATING |-> "animating"]

GAME_MODE == [PVP |-> "pvp", CPU |-> "cpu"]

\* A Game object after its constructor.  winningPositions = null is the
\* empty sequence.
newGame ==
    [board |-> Board_reset, currentPlayer |-> PLAYER_1,
     gameState |-> GAME_STATE.WAITING, gameMode |-> GAME_MODE.PVP,
     winner |-> null, winningPositions |-> << >>, moveHistory |-> << >>]

startGame(g, mode) ==
    [g EXCEPT !.board = Board_reset, !.currentPlayer = PLAYER_1,
              !.gameState = GAME_STATE.PLAYING, !.gameMode = mode,
              !.winner = null, !.winningPositions = << >>,
              !.moveHistory = << >>]

Game_reset(g) ==
    [g EXCEPT !.board = Board_reset, !.currentPlayer = PLAYER_1,
              !.gameState = GAME_STATE.WAITING,
              !.winner = null, !.winningPositions = << >>,
              !.moveHistory = << >>]

\* switchPlayer leaving the player as it is.
switchPlayerStays(g) == g

switchPlayer(g) ==
    [g EXCEPT !.currentPlayer = IF @ = PLAYER_1 THEN PLAYER_2 ELSE PLAYER_1]

isCPUTurn(g) ==
    /\ g.gameMode = GAME_MODE.CPU
    /\ g.currentPlayer = PLAYER_2
    /\ g.gameState = GAME_STATE.PLAYING

isValidMove(g, col) ==
    g.gameState = GAME_STATE.PLAYING /\ ~isColumnFull(g.board, col)

\* makeMove's "return null".
noMove == [row |-> null, col |-> null, player |-> null]

\* makeMove: the Game after the call, the returned move, and the callbacks
\* it invoked, in order.
\* The callbacks of an accepted move in the order makeMove calls them, and
\* the other order.
moveEventsStateFirst == <<"onStateChange", "onTokenPlaced">>

moveEvents == <<"onTokenPlaced", "onStateChange">>

\* makeMove without its test of the game state.
makeMoveInAnyState(g, col) ==
    IF isColumnFull(g.board, col)
        THEN [game |-> g, move |-> noMove, events |-> << >>]
    ELSE
        LET dropped == dropToken(g.board, col, g.currentPlayer)
            row == dropped.row
            move == [row |-> row, col |-> col, player |-> g.currentPlayer]
            placed == [g EXCEPT !.board = dropped.grid,
                                !.moveHistory = Append(@, move)]
            winResult == checkWin(placed.board, row, col, g.currentPlayer)
        IN  IF row = -1
                THEN [game |-> [g EXCEPT !.board = dropped.grid],
                      move |-> noMove, events |-> << >>]
            ELSE IF winResult # noWin
                THEN [game |-> [placed EXCEPT
                                   !.gameState = GAME_STATE.WIN,
                                   !.winner = g.currentPlayer,
                                   !.winningPositions = winResult.positions],
                      move |-> move,
                      events |-> moveEvents]
            ELSE IF isFull(placed.board)
                THEN [game |-> [placed EXCEPT !.gameState = GAME_STATE.DRAW],
                      move |-> move,
                      events |-> moveEvents]
            ELSE [game |-> switchPlayer(placed), move |-> move,
                  events |-> moveEvents]

makeMove(g, col) ==
    IF g.gameState # GAME_STATE.PLAYING
        THEN [game |-> g, move |-> noMove, events |-> << >>]
    ELSE IF isColumnFull(g.board, col)
        THEN [game |-> g, move |-> noMove, events |-> << >>]
    ELSE
        LET dropped == dropToken(g.board, col, g.currentPlayer)
            row == dropped.row
            move == [row |-> row, col |-> col, player |-> g.currentPlayer]
            placed == [g EXCEPT !.board = dropped.grid,
                                !.moveHistory = Append(@, move)]
            winResult == checkWin(placed.board, row, col, g.currentPlayer)
        IN  IF row = -1
                THEN [game |-> [g EXCEPT !.board = dropped.grid],
                      move |-> noMove, events |-> << >>]
            ELSE IF winResult # noWin
                THEN [game |-> [placed EXCEPT
                                   !.gameState = GAME_STATE.WIN,
                                   !.winner = g.currentPlayer,
                                   !.winningPositions = winResult.positions],
                      move |-> move,
                      events |-> moveEvents]
            ELSE IF isFull(placed.board)
                THEN [game |-> [placed EXCEPT !.gameState = GAME_STATE.DRAW],
                      move |-> move,
                      events |-> moveEvents]
            ELSE [game |-> switchPlayer(placed), move |-> move,
                  events |-> moveEvents]

\* setAnimating(animating)
setAnimating(g, animating) ==
    IF animating /\ g.gameState = GAME_STATE.PLAYING
        THEN [g EXCEPT !.gameState = GAME_STATE.ANIMATING]
    ELSE IF ~animating /\ g.gameState = GAME_STATE.ANIMATING
        THEN [g EXCEPT !.gameState = GAME_STATE.PLAYING]
    ELSE g

(***************************************************************************)
(* State.                                                                  *)
(***************************************************************************)
VARIABLES
    game,    \* the Game object, which owns the authoritative board
    ai,      \* the AI object: its stored difficulty
    board,   \* a Board object used on its own
    call,    \* the last completed call whose result is being looked at
    search,  \* the minimax invocation the search is inside of, if any
    plies,   \* calls made since the initial state or the last start
    heap,    \* the row arrays of two Board objects, one cloned from the other
    app      \* the Connect4App object and its pending timers

vars == <<game, ai, board, call, search, plies, heap, app>>

noCall == [op |-> "none"]
noSearch == [active |-> FALSE]

\* No Board objects allocated, no application constructed.
noHeap == [arrays |-> << >>, original |-> << >>, copy |-> << >>]
noApp == [constructed |-> FALSE]

(***************************************************************************)
(* Bounds.                                                                 *)
(***************************************************************************)
\* Tokens placed by makeMove after a start position, and dropToken calls
\* made on the lone Board.
MaxPlies == 1
MaxDrops == 2

\* getBestMove enters its search only where the search tree without
\* cutoffs has at most this many leaves (valid moves ^ depth).
SearchBudget == 729

(***************************************************************************)
(* Start positions: three complete games of 42 moves ending in a draw, a   *)
(* game whose 42nd move completes a four, the openings of three games in   *)
(* which PLAYER_1 can next join two runs into a row of six, complete a     *)
(* column of four and complete a diagonal of four, and the numbers of      *)
(* moves after which the game is picked up.  A start position is what      *)
(* makeMove leaves after replaying the moves on a started Game, so it is a *)
(* state of play the program reaches.                                      *)
(***************************************************************************)
ReferenceGames ==
    << <<0, 0, 6, 0, 0, 0, 0, 6, 6, 1, 1, 6, 1, 1, 6, 1, 6, 5, 5, 1, 5,
         2, 5, 5, 5, 4, 4, 2, 2, 4, 2, 4, 2, 2, 3, 3, 3, 3, 4, 3, 4, 3>>,
       <<6, 0, 0, 6, 6, 6, 0, 6, 0, 0, 6, 1, 0, 5, 1, 5, 5, 1, 1, 1, 5,
         1, 5, 5, 4, 2, 2, 2, 2, 2, 4, 2, 3, 3, 4, 4, 4, 3, 4, 3, 3, 3>>,
       <<6, 0, 0, 6, 6, 0, 0, 0, 6, 6, 0, 6, 5, 5, 1, 5, 1, 5, 1, 1, 1,
         1, 5, 5, 4, 2, 2, 3, 2, 2, 2, 2, 4, 3, 4, 3, 3, 4, 3, 4, 3, 4>>,
       <<0, 0, 6, 0, 0, 0, 0, 6, 6, 1, 1, 6, 1, 1, 6, 1, 6, 5, 5, 1, 5,
         2, 5, 5, 5, 4, 4, 2, 2, 4, 2, 4, 2, 2, 4, 4, 3, 3, 3, 3, 3, 3>>,
       <<0, 0, 1, 1, 2, 2, 4, 4, 5, 5>>,
       <<3, 4, 3, 4, 3, 4>>,
       <<0, 1, 1, 2, 2, 3, 2, 3, 3, 5>> >>

StartPoints ==
    {<<1, 0>>, <<1, 12>>, <<1, 18>>, <<1, 24>>, <<1, 27>>, <<1, 30>>,
     <<1, 33>>, <<1, 36>>, <<1, 38>>, <<1, 40>>, <<1, 41>>, <<1, 42>>,
     <<2, 20>>, <<2, 23>>, <<2, 25>>, <<2, 26>>, <<2, 27>>, <<2, 29>>,
     <<2, 32>>, <<2, 35>>, <<3, 37>>, <<4, 41>>, <<5, 10>>,
     <<6, 6>>, <<7, 10>>}

\* The Game after makeMove(moves[1]), ..., makeMove(moves[n]).
RECURSIVE replay(_, _, _, _)
replay(g, moves, i, n) ==
    IF g.gameState # GAME_STATE.PLAYING \/ i > n THEN g
    ELSE replay(makeMove(g, moves[i]).game, moves, i + 1, n)

StartGames ==
    {replay(startGame(newGame, GAME_MODE.PVP), ReferenceGames[p[1]], 1, p[2]) :
        p \in StartPoints}

Difficulties == {DIFFICULTY.EASY, DIFFICULTY.MEDIUM, DIFFICULTY.HARD}
Players == {PLAYER_1, PLAYER_2}

(***************************************************************************)
(* The engine specification: a Game and the AI that is asked for moves on  *)
(* the Game's board.                                                       *)
(***************************************************************************)
Init ==
    /\ game \in StartGames
    /\ ai = [difficulty |-> DIFFICULTY.MEDIUM]
    /\ board = Board_reset
    /\ call = noCall
    /\ search = noSearch
    /\ plies = 0
    /\ heap = noHeap
    /\ app = noApp

\* game.makeMove(col), by whoever moves next.
MakeMove(col) ==
    /\ ~search.active
    /\ plies < MaxPlies
    /\ \E r \in {makeMove(game, col)} :
           /\ game' = r.game
           /\ plies' = IF r.move = noMove THEN plies ELSE plies + 1
    /\ call' = noCall
    /\ UNCHANGED <<ai, board, search, heap, app>>

\* game.startGame(mode)
StartGame(mode) ==
    /\ ~search.active
    /\ game' = startGame(game, mode)
    /\ plies' = 0
    /\ call' = noCall
    /\ UNCHANGED <<ai, board, search, heap, app>>

\* game.reset()
ResetGame ==
    /\ ~search.active
    /\ game' = Game_reset(game)
    /\ plies' = 0
    /\ call' = noCall
    /\ UNCHANGED <<ai, board, search, heap, app>>

\* ai.setDifficulty(difficulty)
SetDifficulty(difficulty) ==
    /\ ~search.active
    /\ ai' = [ai EXCEPT !.difficulty = difficulty]
    /\ call' = noCall
    /\ UNCHANGED <<game, board, search, plies, heap, app>>

\* Whether getBestMove runs its search on this board within SearchBudget.
withinBudget(grid, difficulty) ==
    LET n == Len(getValidMoves(grid))
    IN  n < 2 \/ n ^ searchDepth(difficulty) <= SearchBudget

\* The values Math.random() can return where getBestMove calls it: the
\* first call is made at EASY on a board with two valid moves or more, the
\* second after a first value below 0.6.
firstDraws(grid, difficulty) ==
    IF difficulty = DIFFICULTY.EASY /\ Len(getValidMoves(grid)) >= 2
    THEN RandomDraws ELSE {0}

secondDraws(grid, difficulty, r1) ==
    IF r1 \in firstDraws(grid, difficulty) /\ difficulty = DIFFICULTY.EASY
       /\ Len(getValidMoves(grid)) >= 2 /\ randomBranch(r1)
    THEN RandomDraws ELSE {0}

\* ai.getBestMove(game.board): the Game's own board object is passed.
GetBestMove ==
    /\ ~search.active
    /\ call = noCall
    /\ withinBudget(game.board, ai.difficulty)
    /\ \E r1 \in firstDraws(game.board, ai.difficulty) :
         \E r2 \in secondDraws(game.board, ai.difficulty, r1) :
          \E ret \in {getBestMove(game.board, ai.difficulty, r1, r2)} :
                /\ game' = [game EXCEPT !.board = ret.board]
                /\ call' = [op |-> "getBestMove", before |-> game.board,
                            difficulty |-> ai.difficulty,
                            move |-> ret.move, scores |-> ret.scores]
    /\ UNCHANGED <<ai, board, search, plies, heap, app>>

\* The loop body of getBestMove up to its minimax call: the clone with the
\* engine's token in col, and the arguments minimax is entered with.
SearchRoot(col) ==
    /\ ~search.active
    /\ Len(getValidMoves(game.board)) >= 2
    /\ withinBudget(game.board, ai.difficulty)
    /\ \E i \in 1 .. Len(getValidMoves(game.board)) :
           col = orderMoves(getValidMoves(game.board))[i]
    /\ \E sim \in {simulateMove(game.board, col, AI_PLAYER)} :
           /\ game' = [game EXCEPT !.board = sim.board]
           /\ search' = [active |-> TRUE, board |-> sim.boardCopy,
                         depth |-> searchDepth(ai.difficulty) - 1,
                         isMaximizing |-> FALSE]
    /\ call' = noCall
    /\ UNCHANGED <<ai, board, plies, heap, app>>

\* Whether minimax returns from its terminal checks on this invocation.
isTerminal(s) ==
    \/ checkWinner(s.board) # null
    \/ isBoardFull(s.board)
    \/ s.depth = 0

\* The loop body of minimax up to its recursive call.  Every invocation
\* the search with cutoffs makes is one that this action reaches.
SearchDescend(col) ==
    /\ search.active
    /\ ~isTerminal(search)
    /\ \E i \in 1 .. Len(getValidMoves(search.board)) :
           col = orderMoves(getValidMoves(search.board))[i]
    /\ \E sim \in {simulateMove(search.board, col,
                IF search.isMaximizing THEN AI_PLAYER ELSE HUMAN_PLAYER)} :
           search' = [active |-> TRUE, board |-> sim.boardCopy,
                      depth |-> search.depth - 1,
                      isMaximizing |-> ~search.isMaximizing]
    /\ UNCHANGED <<game, ai, board, call, plies, heap, app>>

Next ==
    \/ \E col \in Cols : MakeMove(col)
    \/ \E mode \in {GAME_MODE.PVP, GAME_MODE.CPU} : StartGame(mode)
    \/ ResetGame
    \/ \E difficulty \in Difficulties : SetDifficulty(difficulty)
    \/ GetBestMove
    \/ \E col \in Cols : SearchRoot(col)
    \/ \E col \in Cols : SearchDescend(col)

Spec == Init /\ [][Next]_vars

(***************************************************************************)
(* The board specification: a Board object used on its own, filled by the  *)
(* moves of a start position and then called with any column, in range or  *)
(* not, and any player.                                                    *)
(***************************************************************************)
InitBoard ==
    /\ board \in {g.board : g \in StartGames}
    /\ game = newGame
    /\ ai = [difficulty |-> DIFFICULTY.MEDIUM]
    /\ call = noCall
    /\ search = noSearch
    /\ plies = 0
    /\ heap = noHeap
    /\ app = noApp

\* board.dropToken(col, player)
DropToken(col, player) ==
    /\ plies < MaxDrops
    /\ \E dropped \in {dropToken(board, col, player)} :
           /\ board' = dropped.grid
           /\ call' = [op |-> "dropToken", before |-> board, col |-> col,
                       player |-> player, row |-> dropped.row]
    /\ plies' = plies + 1
    /\ UNCHANGED <<game, ai, search, heap, app>>

\* board.reset()
ResetBoard ==
    /\ board' = Board_reset
    /\ call' = [op |-> "reset", before |-> board]
    /\ plies' = 0
    /\ UNCHANGED <<game, ai, search, heap, app>>

NextBoard ==
    \/ \E col \in -1 .. COLS, player \in Players : DropToken(col, player)
    \/ ResetBoard

SpecBoard == InitBoard /\ [][NextBoard]_vars


(***************************************************************************)
(* Board objects as JavaScript keeps them: this.grid is an array of six    *)
(* row arrays.  heap.arrays holds every row array allocated so far, a row  *)
(* array's reference is its position in heap.arrays, and a Board object is *)
(* the sequence of the references of its six rows.  Two Board objects      *)
(* that hold the same reference share that row.                            *)
(***************************************************************************)
\* The cells of the Board whose rows are the references g.
cells(arrays, g) == [row \in Rows |-> arrays[g[row + 1]]]

\* "this.grid = []" followed by six push(new Array(COLS).fill(EMPTY)): the
\* heap with six new row arrays and their references.
newGrid(arrays) ==
    [arrays |-> arrays \o [i \in 1 .. ROWS |-> [col \in Cols |-> EMPTY]],
     grid |-> [i \in 1 .. ROWS |-> Len(arrays) + i]]

\* The assignments "this.grid[row][col] = value" that take the Board g to
\* the cells `grid`: each is made in the row array g refers to.
store(arrays, g, grid) ==
    [ref \in 1 .. Len(arrays) |->
        IF \E i \in 1 .. ROWS : g[i] = ref
        THEN grid[(CHOOSE i \in 1 .. ROWS : g[i] = ref) - 1]
        ELSE arrays[ref]]

\* clone handing out the rows of this.grid themselves.
cloneBoardShared(arrays, g) == [arrays |-> arrays, grid |-> g]

\* Board.clone: new Board(), then one assignment per cell.
cloneBoard(arrays, g) ==
    LET newBoard == newGrid(arrays)
    IN  [arrays |-> store(newBoard.arrays, newBoard.grid,
                          clone(cells(arrays, g))),
         grid |-> newBoard.grid]

(***************************************************************************)
(* The clone specification: a Board, a clone of it, and calls of           *)
(* dropToken, setCell and reset made on either of the two.                 *)
(***************************************************************************)
MaxCalls == 3

Targets == {"original", "copy"}

\* The arguments the calls on the two boards are made with.
CloneColumns == {0, 3}
ClonePositions == {<<0, 0>>, <<ROWS - 1, 3>>, <<ROWS, 0>>}
CloneValues == {EMPTY, PLAYER_1}

\* The boards clone is called on: the empty board, and the boards of the
\* first reference game after 24 and after 42 moves.
CloneStarts ==
    {g.board : g \in {s \in StartGames :
                         /\ Len(s.moveHistory) \in {0, 24, 42}
                         /\ \A i \in 1 .. Len(s.moveHistory) :
                               s.moveHistory[i].col
                                   = ReferenceGames[1][i]}}

InitClone ==
    /\ \E grid \in CloneStarts :
         \E made \in {newGrid(<< >>)} :
           heap = [arrays |-> store(made.arrays, made.grid, grid),
                   original |-> made.grid, copy |-> << >>]
    /\ game = newGame
    /\ ai = [difficulty |-> DIFFICULTY.MEDIUM]
    /\ board = Board_reset
    /\ call = noCall
    /\ search = noSearch
    /\ plies = 0
    /\ app = noApp

\* copy = original.clone()
Clone ==
    /\ plies < MaxCalls
    /\ \E made \in {cloneBoard(heap.arrays, heap.original)} :
           heap' = [heap EXCEPT !.arrays = made.arrays, !.copy = made.grid]
    /\ call' = [op |-> "clone", target |-> "original"]
    /\ plies' = plies + 1
    /\ UNCHANGED <<game, ai, board, search, app>>

\* The target's rows after its cells are set to `grid`, for the calls that
\* assign cells in place.
assigned(target, grid) ==
    [heap EXCEPT !.arrays = store(heap.arrays, heap[target], grid)]

\* target.dropToken(col, player)
DropTokenOn(target, col, player) ==
    /\ plies < MaxCalls
    /\ heap[target] # << >>
    /\ heap' = assigned(target,
                   dropToken(cells(heap.arrays, heap[target]), col, player).grid)
    /\ call' = [op |-> "dropToken", target |-> target]
    /\ plies' = plies + 1
    /\ UNCHANGED <<game, ai, board, search, app>>

\* target.setCell(row, col, value)
SetCellOn(target, row, col, value) ==
    /\ plies < MaxCalls
    /\ heap[target] # << >>
    /\ heap' = assigned(target,
                   setCell(cells(heap.arrays, heap[target]), row, col, value))
    /\ call' = [op |-> "setCell", target |-> target]
    /\ plies' = plies + 1
    /\ UNCHANGED <<game, ai, board, search, app>>

\* target.reset()
ResetOn(target) ==
    /\ plies < MaxCalls
    /\ heap[target] # << >>
    /\ \E made \in {newGrid(heap.arrays)} :
           heap' = [heap EXCEPT !.arrays = made.arrays, ![target] = made.grid]
    /\ call' = [op |-> "reset", target |-> target]
    /\ plies' = plies + 1
    /\ UNCHANGED <<game, ai, board, search, app>>

NextClone ==
    \/ Clone
    \/ \E target \in Targets, col \in CloneColumns, player \in Players :
           DropTokenOn(target, col, player)
    \/ \E target \in Targets, position \in ClonePositions,
          value \in CloneValues :
           SetCellOn(target, position[1], position[2], value)
    \/ \E target \in Targets : ResetOn(target)

SpecClone == InitClone /\ [][NextClone]_vars

(***************************************************************************)
(* The win detector specification: checkWin called with any coordinate, in *)
(* the grid or next to it, and any side, on boards of games and on boards   *)
(* that setCell fills with a straight line of tokens.                       *)
(***************************************************************************)
\* The Board after setCell(cell, value) for the cells from the i-th on.
RECURSIVE setCells(_, _, _, _)
setCells(grid, positions, i, value) ==
    IF i > Len(positions) THEN grid
    ELSE setCells(setCell(grid, positions[i][1], positions[i][2], value),
                  positions, i + 1, value)

\* n cells in a row from `from` by steps of DIRECTIONS[d].
lineFrom(from, d, n) ==
    [i \in 1 .. n |-> <<from[1] + (i - 1) * DIRECTIONS[d][1],
                        from[2] + (i - 1) * DIRECTIONS[d][2]>>]

\* The lines of 3 cells or more that lie in the grid.
LinesInGrid ==
    {line \in {lineFrom(<<row, col>>, d, n) :
                  row \in Rows, col \in Cols, d \in 1 .. Len(DIRECTIONS),
                  n \in 3 .. COLS} :
        \A i \in 1 .. Len(line) : isValidPosition(line[i][1], line[i][2])}

LogicStarts ==
    {g.board : g \in StartGames}
        \cup {makeMove(g, col).game.board : g \in StartGames, col \in Cols}
        \cup {setCells(Board_reset, line, 1, player) :
                 line \in LinesInGrid, player \in Players}
        \cup {[row \in Rows |-> [col \in Cols |-> player]] : player \in Players}

InitLogic ==
    /\ board \in LogicStarts
    /\ game = newGame
    /\ ai = [difficulty |-> DIFFICULTY.MEDIUM]
    /\ call = noCall
    /\ search = noSearch
    /\ plies = 0
    /\ heap = noHeap
    /\ app = noApp

\* checkWin(board, row, col, player)
CheckWin(row, col, player) ==
    /\ call = noCall
    /\ call' = [op |-> "checkWin", before |-> board, row |-> row, col |-> col,
                player |-> player,
                result |-> checkWin(board, row, col, player)]
    /\ UNCHANGED <<game, ai, board, search, plies, heap, app>>

NextLogic ==
    \E row \in -1 .. ROWS, col \in -1 .. COLS, player \in Players :
        CheckWin(row, col, player)

SpecLogic == InitLogic /\ [][NextLogic]_vars

(***************************************************************************)
(* isWinningMove and getWinningMoves on the same boards, columns one step  *)
(* outside the grid included.                                              *)
(***************************************************************************)
\* isWinningMove(board, col, player)
IsWinningMove(col, player) ==
    /\ call = noCall
    /\ \E ret \in {isWinningMove(board, col, player)} :
           /\ board' = ret.grid
           /\ call' = [op |-> "isWinningMove", before |-> board, col |-> col,
                       player |-> player, result |-> ret.result]
    /\ UNCHANGED <<game, ai, search, plies, heap, app>>

\* getWinningMoves(board, player)
GetWinningMoves(player) ==
    /\ call = noCall
    /\ \E ret \in {getWinningMoves(board, player)} :
           /\ board' = ret.grid
           /\ call' = [op |-> "getWinningMoves", before |-> board,
                       player |-> player, result |-> ret.result]
    /\ UNCHANGED <<game, ai, search, plies, heap, app>>

NextWinning ==
    \/ \E col \in -1 .. COLS, player \in Players : IsWinningMove(col, player)
    \/ \E player \in Players : GetWinningMoves(player)

SpecWinning == InitLogic /\ [][NextWinning]_vars

(***************************************************************************)
(* The application specification: Connect4App of main.js with its Game,   *)
(* its AI and the timers set by makeAIMove.  The handlers run to           *)
(* completion one at a time; a timer set by setTimeout fires at any later  *)
(* time, and nothing in the program clears one.  Rendering, the HUD and    *)
(* the animations are left out.                                            *)
(***************************************************************************)
MaxTimers == 2
MaxAppMoves == 2
HoverColumns == {-1, 3}
TouchColumns == {0}
AppDraws == {0, 9}
AppDifficulties == {DIFFICULTY.EASY, DIFFICULTY.MEDIUM}

\* makeAIMove up to and including its setTimeout call.
makeAIMove(a) ==
    IF a.aiThinking THEN a
    ELSE [a EXCEPT !.aiThinking = TRUE, !.timers = @ + 1]

\* onTokenPlaced(move): the entry pushed to placedTokens.
onTokenPlaced(a, move) == [a EXCEPT !.placedTokens = Append(@, move)]

\* stopWinAnimations
stopWinAnimations(a) == [a EXCEPT !.winAnimations = << >>]

\* placedTokens.find(t => t.row === row && t.col === col) finds an entry.
findToken(placedTokens, position) ==
    \E i \in 1 .. Len(placedTokens) :
        /\ placedTokens[i].row = position[1]
        /\ placedTokens[i].col = position[2]

\* highlightWinningTokens(positions): winAnimations lists the positions
\* whose token was found and given its pulse and glow animations.
highlightWinningTokens(a, positions) ==
    [a EXCEPT !.winAnimations =
        SelectSeq(positions, LAMBDA p : findToken(a.placedTokens, p))]

\* resetBoard
resetBoard(a) == [a EXCEPT !.placedTokens = << >>]

\* onGameStateChange, called by the Game's notifyStateChange.
onGameStateChange(g, a) ==
    IF g.gameState = GAME_STATE.WIN
        THEN highlightWinningTokens(a, g.winningPositions)
    ELSE IF g.gameState = GAME_STATE.PLAYING /\ isCPUTurn(g)
        THEN makeAIMove(a)
    ELSE a

\* The app after the callbacks events[i], events[i+1], ... of one makeMove.
RECURSIVE callbacks(_, _, _, _, _)
callbacks(events, i, g, move, a) ==
    IF i > Len(events) THEN a
    ELSE callbacks(events, i + 1, g, move,
                   IF events[i] = "onTokenPlaced" THEN onTokenPlaced(a, move)
                   ELSE onGameStateChange(g, a))

\* A game the app can have reached in CPU mode: PLAYER_1 has three tokens
\* in column 3 and the engine three in column 4.
AppOpening ==
    replay(startGame(newGame, GAME_MODE.CPU), ReferenceGames[6], 1, 6)

AppStarts == {startGame(newGame, GAME_MODE.PVP), AppOpening}

\* The moves made since the game was started or since AppOpening.
movesMade(g) ==
    LET n == Len(AppOpening.moveHistory)
    IN  IF Len(g.moveHistory) >= n
           /\ SubSeq(g.moveHistory, 1, n) = AppOpening.moveHistory
        THEN Len(g.moveHistory) - n
        ELSE Len(g.moveHistory)

\* What a handler saw when it was entered, and whether it placed a token.
handled(op, placed) ==
    [op |-> op, pending |-> app.timers, gameMode |-> game.gameMode,
     gameState |-> game.gameState, currentPlayer |-> game.currentPlayer,
     placed |-> placed]

\* The constructor and init(): a Game started in PVP mode, an AI at MEDIUM.
InitApp ==
    /\ game \in AppStarts
    /\ ai = [difficulty |-> DIFFICULTY.MEDIUM]
    /\ app = [constructed |-> TRUE, hoveredColumn |-> -1,
              aiDifficulty |-> DIFFICULTY.MEDIUM, aiThinking |-> FALSE,
              timers |-> 0, placedTokens |-> game.moveHistory,
              winAnimations |-> << >>]
    /\ board = Board_reset
    /\ call = noCall
    /\ search = noSearch
    /\ plies = 0
    /\ heap = noHeap

\* onMouseMove: setHoveredColumn(col), col = -1 off the column zones.
OnMouseMove(col) ==
    /\ app.hoveredColumn # col
    /\ app' = [app EXCEPT !.hoveredColumn = col]
    /\ call' = noCall
    /\ UNCHANGED <<game, ai, board, search, plies, heap>>

\* game.makeMove(col) from an input handler, with the callbacks it runs.
inputMove(op, col) ==
    \E r \in {makeMove(game, col)} :
        /\ game' = r.game
        /\ app' = callbacks(r.events, 1, r.game, r.move, app)
        /\ call' = handled(op, r.move # noMove)

\* onMouseClick
OnMouseClick ==
    /\ app.timers < MaxTimers
    /\ movesMade(game) < MaxAppMoves
    /\ IF app.hoveredColumn >= 0 /\ isValidMove(game, app.hoveredColumn)
       THEN inputMove("onMouseClick", app.hoveredColumn)
       ELSE /\ call' = handled("onMouseClick", FALSE)
            /\ UNCHANGED <<game, app>>
    /\ UNCHANGED <<ai, board, search, plies, heap>>

\* onTouchStart with one touch on the zone of column col.
OnTouchStart(col) ==
    /\ app.timers < MaxTimers
    /\ movesMade(game) < MaxAppMoves
    /\ IF isValidMove(game, col)
       THEN inputMove("onTouchStart", col)
       ELSE /\ call' = handled("onTouchStart", FALSE)
            /\ UNCHANGED <<game, app>>
    /\ UNCHANGED <<ai, board, search, plies, heap>>

\* restartGame
RestartGame ==
    /\ game' = startGame(game, game.gameMode)
    /\ app' = onGameStateChange(startGame(game, game.gameMode),
           resetBoard([stopWinAnimations(app) EXCEPT !.aiThinking = FALSE]))
    /\ call' = noCall
    /\ UNCHANGED <<ai, board, search, plies, heap>>

\* changeGameMode
ChangeGameMode(mode) ==
    /\ game' = startGame(game, mode)
    /\ app' = onGameStateChange(startGame(game, mode),
           resetBoard([stopWinAnimations(app) EXCEPT !.aiThinking = FALSE]))
    /\ call' = noCall
    /\ UNCHANGED <<ai, board, search, plies, heap>>

\* changeDifficulty
ChangeDifficulty(difficulty) ==
    /\ ai.difficulty # difficulty
    /\ app' = [app EXCEPT !.aiDifficulty = difficulty]
    /\ ai' = [ai EXCEPT !.difficulty = difficulty]
    /\ call' = noCall
    /\ UNCHANGED <<game, board, search, plies, heap>>

\* The callback given to setTimeout by makeAIMove.
AITimer ==
    /\ app.timers > 0
    /\ movesMade(game) <= MaxAppMoves
    /\ withinBudget(game.board, ai.difficulty)
    /\ \E r1 \in firstDraws(game.board, ai.difficulty) \cap AppDraws :
         \E r2 \in secondDraws(game.board, ai.difficulty, r1) \cap AppDraws :
          \E ret \in {getBestMove(game.board, ai.difficulty, r1, r2)} :
           \E fired \in {[app EXCEPT !.timers = @ - 1]} :
            \E g \in {[game EXCEPT !.board = ret.board]} :
              IF ret.move >= 0 /\ isValidMove(g, ret.move)
              THEN \E r \in {makeMove(g, ret.move)} :
                      /\ game' = r.game
                      /\ app' = [callbacks(r.events, 1, r.game, r.move,
                                           fired)
                                     EXCEPT !.aiThinking = FALSE]
                      /\ call' = handled("aiTimer", r.move # noMove)
              ELSE /\ game' = g
                   /\ app' = [fired EXCEPT !.aiThinking = FALSE]
                   /\ call' = handled("aiTimer", FALSE)
    /\ UNCHANGED <<ai, board, search, plies, heap>>

NextApp ==
    \/ \E col \in HoverColumns : OnMouseMove(col)
    \/ OnMouseClick
    \/ \E col \in TouchColumns : OnTouchStart(col)
    \/ RestartGame
    \/ \E mode \in {GAME_MODE.PVP, GAME_MODE.CPU} : ChangeGameMode(mode)
    \/ \E difficulty \in AppDifficulties : ChangeDifficulty(difficulty)
    \/ AITimer

SpecApp == InitApp /\ [][NextApp]_vars

\* The same app under the assumption that a pending timer fires: setTimeout
\* runs its callback once the delay has passed.
SpecAppFair == SpecApp /\ WF_vars(AITimer)

(***************************************************************************)
(* The engine alone: one AI object asked again and again for a move on     *)
(* the same board, with setDifficulty calls in between.  Math.random()     *)
(* returns any value at any call, whether or not getBestMove reads it.     *)
(***************************************************************************)
MaxAsks == 3
EngineDraws == {0, RandomSteps - 1}
EnginePoints ==
    {<<1, 36>>, <<1, 38>>, <<1, 40>>, <<1, 41>>, <<1, 42>>, <<3, 37>>}

EngineBoards ==
    {replay(startGame(newGame, GAME_MODE.PVP),
            ReferenceGames[p[1]], 1, p[2]).board : p \in EnginePoints}

\* No call made yet on the board `input`.
noAsk(input) ==
    [op |-> "none", input |-> input, asks |-> 0,
     first |-> [tier \in Difficulties |-> null]]

\* new AI(DIFFICULTY.MEDIUM) as main.js constructs it, and the board every
\* call will be given.
InitEngine ==
    /\ board \in EngineBoards
    /\ ai = [difficulty |-> DIFFICULTY.MEDIUM]
    /\ call = noAsk(board)
    /\ game = newGame
    /\ search = noSearch
    /\ plies = 0
    /\ heap = noHeap
    /\ app = noApp

\* ai.setDifficulty(difficulty)
SetDifficultyBetween(difficulty) ==
    /\ ai.difficulty # difficulty
    /\ ai' = [ai EXCEPT !.difficulty = difficulty]
    /\ UNCHANGED <<game, board, call, search, plies, heap, app>>

\* ai.getBestMove(board): the column returned, and the column the first
\* call at this difficulty returned.
GetBestMoveAgain ==
    /\ call.asks < MaxAsks
    /\ withinBudget(board, ai.difficulty)
    /\ \E r1 \in EngineDraws : \E r2 \in EngineDraws :
         \E ret \in {getBestMove(board, ai.difficulty, r1, r2)} :
            /\ board' = ret.board
            /\ call' = [op |-> "getBestMove", input |-> call.input,
                        asks |-> call.asks + 1, before |-> board,
                        difficulty |-> ai.difficulty, move |-> ret.move,
                        first |-> IF call.first[ai.difficulty] = null
                                  THEN [call.first EXCEPT
                                           ![ai.difficulty] = ret.move]
                                  ELSE call.first]
    /\ UNCHANGED <<game, ai, search, plies, heap, app>>

NextEngine ==
    \/ \E difficulty \in Difficulties : SetDifficultyBetween(difficulty)
    \/ GetBestMoveAgain

SpecEngine == InitEngine /\ [][NextEngine]_vars

(***************************************************************************)
(* The Game alone, driven through its public methods from a new Game and   *)
(* from positions of the reference games.                                  *)
(***************************************************************************)
MaxGameMoves == 2

InitGame ==
    /\ game \in {newGame} \cup StartGames
    /\ call = noCall
    /\ plies = 0
    /\ ai = [difficulty |-> DIFFICULTY.MEDIUM]
    /\ board = Board_reset
    /\ search = noSearch
    /\ heap = noHeap
    /\ app = noApp

\* game.makeMove(col)
GameMakeMove(col) ==
    /\ plies < MaxGameMoves
    /\ \E r \in {makeMove(game, col)} :
           /\ game' = r.game
           /\ call' = [op |-> "makeMove", col |-> col, before |-> game,
                       move |-> r.move, events |-> r.events]
    /\ plies' = plies + 1
    /\ UNCHANGED <<ai, board, search, heap, app>>

\* game.startGame(mode)
GameStartGame(mode) ==
    /\ call.op # "startGame"
    /\ game' = startGame(game, mode)
    /\ call' = [op |-> "startGame"]
    /\ plies' = 0
    /\ UNCHANGED <<ai, board, search, heap, app>>

\* game.reset()
GameReset ==
    /\ call.op # "reset"
    /\ game' = Game_reset(game)
    /\ call' = [op |-> "reset"]
    /\ plies' = 0
    /\ UNCHANGED <<ai, board, search, heap, app>>

\* game.setAnimating(animating)
SetAnimating(animating) ==
    /\ game' = setAnimating(game, animating)
    /\ game' # game
    /\ call' = [op |-> "setAnimating"]
    /\ UNCHANGED <<ai, board, search, plies, heap, app>>

NextGame ==
    \/ \E col \in Cols : GameMakeMove(col)
    \/ \E mode \in {GAME_MODE.PVP, GAME_MODE.CPU} : GameStartGame(mode)
    \/ GameReset
    \/ \E animating \in BOOLEAN : SetAnimating(animating)

SpecGame == InitGame /\ [][NextGame]_vars

(***************************************************************************)
(* The chain of minimax invocations of one getBestMove call, with the      *)
(* depth each receives, for any value of the difficulty field.             *)
(***************************************************************************)
MaxDescent == 7
DepthPoints == {<<1, 24>>, <<1, 33>>, <<1, 36>>, <<1, 40>>}
DepthBoards ==
    {replay(startGame(newGame, GAME_MODE.PVP),
            ReferenceGames[p[1]], 1, p[2]).board : p \in DepthPoints}
DepthDifficulties == Difficulties \cup {"expert"} \cup InheritedKeys

InitDepth ==
    /\ board \in DepthBoards
    /\ ai = [difficulty |-> DIFFICULTY.MEDIUM]
    /\ search = noSearch
    /\ game = newGame
    /\ call = noCall
    /\ plies = 0
    /\ heap = noHeap
    /\ app = noApp

\* ai.setDifficulty(difficulty), with any value.
SetDifficultyAny(difficulty) ==
    /\ ~search.active
    /\ ai.difficulty # difficulty
    /\ ai' = [ai EXCEPT !.difficulty = difficulty]
    /\ UNCHANGED <<game, board, call, search, plies, heap, app>>

\* The loop body of getBestMove up to its minimax call.
EnterMinimax(col) ==
    /\ ~search.active
    /\ Len(getValidMoves(board)) >= 2
    /\ \E i \in 1 .. Len(getValidMoves(board)) :
           col = orderMoves(getValidMoves(board))[i]
    /\ \E sim \in {simulateMove(board, col, AI_PLAYER)} :
           /\ board' = sim.board
           /\ search' = [active |-> TRUE, board |-> sim.boardCopy,
                         callerDepth |-> configuredDepth(ai.difficulty),
                         depth |-> minusOne(configuredDepth(ai.difficulty)),
                         isMaximizing |-> FALSE, level |-> 1]
    /\ UNCHANGED <<game, ai, call, plies, heap, app>>

\* The loop body of minimax up to its recursive call.
RecurseMinimax(col) ==
    /\ search.active
    /\ search.level < MaxDescent
    /\ checkWinner(search.board) = null
    /\ ~isBoardFull(search.board)
    /\ ~isZero(search.depth)
    /\ \E i \in 1 .. Len(getValidMoves(search.board)) :
           col = orderMoves(getValidMoves(search.board))[i]
    /\ \E sim \in {simulateMove(search.board, col,
                IF search.isMaximizing THEN AI_PLAYER ELSE HUMAN_PLAYER)} :
           search' = [active |-> TRUE, board |-> sim.boardCopy,
                      callerDepth |-> search.depth,
                      depth |-> minusOne(search.depth),
                      isMaximizing |-> ~search.isMaximizing,
                      level |-> search.level + 1]
    /\ UNCHANGED <<game, ai, board, call, plies, heap, app>>

NextDepth ==
    \/ \E difficulty \in DepthDifficulties : SetDifficultyAny(difficulty)
    \/ \E col \in Cols : EnterMinimax(col)
    \/ \E col \in Cols : RecurseMinimax(col)

SpecDepth == InitDepth /\ [][NextDepth]_vars

(***************************************************************************)
(* The window evaluator alone: evaluateWindow applied to an array of four  *)
(* values, each a cell value or the null getCell returns off the grid.     *)
(***************************************************************************)
WindowValues == {null, EMPTY, PLAYER_1, PLAYER_2}
Windows == [1 .. 4 -> WindowValues]

InitWindow ==
    /\ \E window \in Windows : call = [op |-> "none", window |-> window]
    /\ game = newGame
    /\ ai = [difficulty |-> DIFFICULTY.MEDIUM]
    /\ board = Board_reset
    /\ search = noSearch
    /\ plies = 0
    /\ heap = noHeap
    /\ app = noApp

\* ai.evaluateWindow(window)
EvaluateWindow ==
    /\ call.op = "none"
    /\ call' = [op |-> "evaluateWindow", window |-> call.window,
                result |-> evaluateWindow(call.window)]
    /\ UNCHANGED <<game, ai, board, search, plies, heap, app>>

NextWindow == EvaluateWindow

SpecWindow == InitWindow /\ [][NextWindow]_vars

(***************************************************************************)
(* Vocabulary of the properties.  It is defined on the cells of a grid     *)
(* alone and uses none of the program's methods.                           *)
(***************************************************************************)
Cells == Rows \X Cols

LineSteps == {<<0, 1>>, <<1, 0>>, <<1, 1>>, <<1, -1>>}

\* The 69 sets of four aligned cells of the board.
Lines ==
    {line \in {{<<cell[1] + k * step[1], cell[2] + k * step[2]>> : k \in 0 .. 3} :
                  cell \in Cells, step \in LineSteps} :
        line \subseteq Cells}

owner(grid, cell) == grid[cell[1]][cell[2]]

hasFour(grid, player) ==
    \E line \in Lines : \A cell \in line : owner(grid, cell) = player

noFour(grid) == ~hasFour(grid, PLAYER_1) /\ ~hasFour(grid, PLAYER_2)

hasRoom(grid, col) == \E row \in Rows : grid[row][col] = EMPTY

openColumns(grid) == {col \in Cols : hasRoom(grid, col)}

\* The lowest empty row of a column that has room.
landingRow(grid, col) ==
    CHOOSE row \in Rows :
        /\ grid[row][col] = EMPTY
        /\ \A below \in 0 .. (row - 1) : grid[below][col] # EMPTY

withToken(grid, col, player) ==
    [grid EXCEPT ![landingRow(grid, col)][col] = player]

\* A token of player in col completes four in a row.
completesFour(grid, col, player) ==
    hasRoom(grid, col) /\ hasFour(withToken(grid, col, player), player)

winningColumns(grid, player) ==
    {col \in Cols : completesFour(grid, col, player)}

sameCells(g1, g2) == \A cell \in Cells : owner(g1, cell) = owner(g2, cell)

\* Columns by ascending distance from column 3, ascending column among
\* equals, restricted to the columns with room.
centerOut == <<3, 2, 4, 1, 5, 0, 6>>

hasRoomIn(grid) == [col \in Cols |-> hasRoom(grid, col)]

centerOutOpen(grid) ==
    LET room == hasRoomIn(grid)
        keep(col) == room[col]
    IN  SelectSeq(centerOut, keep)

maximum(scores) ==
    CHOOSE m \in {scores[i] : i \in DOMAIN scores} :
        \A i \in DOMAIN scores : scores[i] <= m

\* The first position of a sequence of scores that holds its maximum.
firstBest(scores) ==
    CHOOSE i \in DOMAIN scores :
        /\ scores[i] = maximum(scores)
        /\ \A j \in 1 .. (i - 1) : scores[j] < scores[i]

searched == call.op = "getBestMove" /\ call.scores # << >>

deepSearch == {DIFFICULTY.MEDIUM, DIFFICULTY.HARD}

\* minimax without the two break statements: the plain minimax value.
RECURSIVE minimaxNoCutoff(_, _, _)
minimaxNoCutoff(grid, depth, isMaximizing) ==
    LET winner == checkWinner(grid)
    IN  IF winner = AI_PLAYER THEN SCORE.WIN + depth
        ELSE IF winner = HUMAN_PLAYER THEN -SCORE.WIN - depth
        ELSE IF isBoardFull(grid) THEN 0
        ELSE IF depth = 0 THEN evaluateBoard(grid)
        ELSE LET player == IF isMaximizing THEN AI_PLAYER ELSE HUMAN_PLAYER
                 values == {minimaxNoCutoff(dropToken(grid, col, player).grid,
                                            depth - 1, ~isMaximizing) :
                               col \in openColumns(grid)}
             IN  IF isMaximizing
                 THEN CHOOSE v \in values : \A w \in values : w <= v
                 ELSE CHOOSE v \in values : \A w \in values : v <= w

\* The root scores of the search without cutoffs, in center-out order.
rootScoresNoCutoff(grid, difficulty) ==
    LET columns == centerOutOpen(grid)
    IN  [i \in 1 .. Len(columns) |->
            minimaxNoCutoff(dropToken(grid, columns[i], AI_PLAYER).grid,
                            searchDepth(difficulty) - 1, FALSE)]

(***************************************************************************)
(* Properties of the engine specification                                  *)
(***************************************************************************)

\* C1: getBestMove never changes the board it is given.  After every call,
\* at every difficulty and for every outcome of the random draws, each of
\* the 42 cells of the passed board holds the value it held before the call.
GetBestMoveKeepsBoard ==
    call.op = "getBestMove" => sameCells(game.board, call.before)

\* A search at Hard has returned on a board that holds tokens and has room.
GetBestMoveKeepsBoardWitness ==
    /\ searched
    /\ call.difficulty = DIFFICULTY.HARD
    /\ call.before # Board_reset
    /\ call.move \in openColumns(call.before)

\* C2: on a board without a four on which a token of PLAYER_2 in some column
\* completes four in a row, getBestMove at Medium and at Hard returns such a
\* column; with PLAYER_2 at (0,0), (0,1), (0,2) and (0,3) empty it returns 3.
ImmediateWin ==
    (/\ call.op = "getBestMove"
     /\ call.difficulty \in deepSearch
     /\ noFour(call.before)
     /\ winningColumns(call.before, PLAYER_2) # {})
    => /\ call.move \in winningColumns(call.before, PLAYER_2)
       /\ (/\ \A col \in 0 .. 2 : call.before[0][col] = PLAYER_2
           /\ call.before[0][3] = EMPTY) => call.move = 3

\* The row-0 instance: the engine holds (0,0), (0,1), (0,2), cell (0,3) is
\* empty, and the search at Hard has returned.
ImmediateWinWitness ==
    /\ searched
    /\ call.difficulty = DIFFICULTY.HARD
    /\ noFour(call.before)
    /\ \A col \in 0 .. 2 : call.before[0][col] = PLAYER_2
    /\ call.before[0][3] = EMPTY
    /\ call.move = 3

\* The precondition shared by the two statements of the immediate block.
blockCase ==
    /\ call.op = "getBestMove"
    /\ call.difficulty \in deepSearch
    /\ noFour(call.before)
    /\ winningColumns(call.before, PLAYER_2) = {}

\* The empty cells that are the fourth cell of a line whose three other
\* cells hold player.
fourthCells(grid, player) ==
    {cell \in Cells :
        /\ owner(grid, cell) = EMPTY
        /\ \E line \in Lines :
              /\ cell \in line
              /\ \A other \in line \ {cell} : owner(grid, other) = player}

PruningKeepsResult ==
    searched =>
        LET scores == rootScoresNoCutoff(call.before, call.difficulty)
        IN  /\ Len(call.scores) = Len(scores)
            /\ \A i \in 1 .. Len(scores) : call.scores[i] = scores[i]
            /\ call.move = centerOutOpen(call.before)[firstBest(scores)]

\* A search at Medium over four columns or more has returned: at that width
\* and depth the search with cutoffs skips subtrees.
PruningKeepsResultWitness ==
    /\ searched
    /\ call.difficulty = DIFFICULTY.MEDIUM
    /\ Cardinality(openColumns(call.before)) >= 4
    /\ \E i, j \in 1 .. Len(call.scores) : call.scores[i] # call.scores[j]

\* C5: getBestMove and minimax visit the non-full columns by ascending
\* |column - 3|, ascending column among equals, and the search branch of
\* getBestMove returns the first column in that order whose score is
\* maximal.
CenterOutFirstBest ==
    /\ orderMoves(getValidMoves(game.board)) = centerOutOpen(game.board)
    /\ search.active =>
           orderMoves(getValidMoves(search.board)) = centerOutOpen(search.board)
    /\ searched =>
           /\ Len(call.scores) = Len(centerOutOpen(call.before))
           /\ call.move = centerOutOpen(call.before)[firstBest(call.scores)]

\* A search has returned with two root columns sharing the maximal score.
CenterOutFirstBestWitness ==
    /\ searched
    /\ \E i, j \in 1 .. Len(call.scores) :
          /\ i < j
          /\ call.scores[i] = maximum(call.scores)
          /\ call.scores[j] = maximum(call.scores)
    /\ Cardinality(openColumns(call.before)) < COLS

\* C6: getBestMove returns -1 exactly when no column has room; when a
\* column has room it returns a column with room, at every difficulty and
\* for every outcome of the random draws, and the only such column when
\* there is exactly one.
ReturnsColumnWithRoom ==
    call.op = "getBestMove" =>
        /\ call.move \in {-1} \cup Cols
        /\ call.move = -1 <=> openColumns(call.before) = {}
        /\ openColumns(call.before) # {} =>
               call.move \in openColumns(call.before)
        /\ Cardinality(openColumns(call.before)) = 1 =>
               openColumns(call.before) = {call.move}

\* getBestMove has returned -1 on a full board.
ReturnsColumnWithRoomWitness ==
    /\ call.op = "getBestMove"
    /\ openColumns(call.before) = {}
    /\ call.move = -1

(***************************************************************************)
(* Properties of the board specification                                   *)
(***************************************************************************)

\* C7: dropToken on a column with room changes exactly one cell, from EMPTY
\* to the side dropped, at the lowest previously empty row of the column,
\* returns that row and leaves the other 41 cells unchanged; isColumnFull
\* of the column is true afterwards exactly when that row was row 5.
DropTokenPlacesOne ==
    (/\ call.op = "dropToken"
     /\ call.col \in Cols
     /\ hasRoom(call.before, call.col))
    => LET row == landingRow(call.before, call.col)
       IN  /\ call.row = row
           /\ call.before[row][call.col] = EMPTY
           /\ board[row][call.col] = call.player
           /\ \A cell \in Cells \ {<<row, call.col>>} :
                  owner(board, cell) = owner(call.before, cell)
           /\ isColumnFull(board, call.col) <=> row = ROWS - 1

\* dropToken has put the sixth token on a column that held five.
DropTokenPlacesOneWitness ==
    /\ call.op = "dropToken"
    /\ call.col \in Cols
    /\ call.row = ROWS - 1
    /\ call.before[ROWS - 1][call.col] = EMPTY
    /\ board[ROWS - 1][call.col] = call.player

\* C8: dropToken on a full column, or on a column index outside 0..6,
\* returns -1 and leaves every cell of the board unchanged.
DropTokenFails ==
    (/\ call.op = "dropToken"
     /\ (call.col \notin Cols \/ ~hasRoom(call.before, call.col)))
    => /\ call.row = -1
       /\ sameCells(board, call.before)

\* dropToken has returned -1 from a column in range that is full.
DropTokenFailsWitness ==
    /\ call.op = "dropToken"
    /\ call.col \in Cols
    /\ ~hasRoom(call.before, call.col)
    /\ call.row = -1

(***************************************************************************)
(* Properties of the boards of a game                                      *)
(***************************************************************************)
gravity(grid) ==
    \A col \in Cols : \A row \in Rows :
        grid[row][col] # EMPTY => \A below \in 0 .. (row - 1) :
                                      grid[below][col] # EMPTY

\* C9: gravity.  On the board of the game, after any sequence of startGame,
\* reset and makeMove calls, and on every clone the engine's search builds,
\* no empty cell lies below a non-empty cell of the same column.
Gravity ==
    /\ gravity(game.board)
    /\ search.active => gravity(search.board)

\* A clone at the last level of a search at Medium, holding the
\* hypothetical tokens of the levels above it.
GravityWitness ==
    /\ search.active
    /\ search.depth = 0
    /\ ai.difficulty = DIFFICULTY.MEDIUM
    /\ Cardinality({cell \in Cells : owner(search.board, cell) # EMPTY})
           > Cardinality({cell \in Cells : owner(game.board, cell) # EMPTY})

\* A step that begins a game: startGame or reset.
gameStart ==
    \/ \E mode \in {GAME_MODE.PVP, GAME_MODE.CPU} : StartGame(mode)
    \/ ResetGame

\* C10: no removal during a game.  Across every step other than startGame
\* and reset (makeMove, a getBestMove call, the engine's search), a cell of
\* the game's board that holds PLAYER_1 or PLAYER_2 keeps its value.
NoRemoval ==
    [][gameStart \/ \A cell \in Cells :
                        owner(game.board, cell) # EMPTY =>
                            owner(game'.board, cell) = owner(game.board, cell)]_vars

\* A makeMove has been accepted on a board that held tokens, and the engine
\* has then been asked for a move on it.
NoRemovalWitness ==
    /\ plies > 0
    /\ Len(game.moveHistory) > plies
    /\ searched

(***************************************************************************)
(* Properties of the clone specification                                   *)
(***************************************************************************)
originalCells == cells(heap.arrays, heap.original)
copyCells == cells(heap.arrays, heap.copy)

\* C11: clone returns a board whose 42 cells equal the original's and
\* leaves the original's cells as they were; every dropToken, setCell and
\* reset call on the clone leaves the cells of the original unchanged, and
\* every such call on the original leaves the cells of the clone unchanged.
CloneIndependent ==
    [][/\ call'.op = "clone" =>
              /\ sameCells(originalCells', originalCells)
              /\ sameCells(copyCells', originalCells)
       /\ (call'.op # "clone" /\ call'.target = "copy") =>
              sameCells(originalCells', originalCells)
       /\ (call'.op # "clone" /\ call'.target = "original"
              /\ heap.copy # << >>) =>
              sameCells(copyCells', copyCells)]_vars

\* A token has been dropped on the clone of a board that holds tokens, and
\* the clone now differs from the original in that cell.
CloneIndependentWitness ==
    /\ heap.copy # << >>
    /\ call.op = "dropToken"
    /\ call.target = "copy"
    /\ originalCells # Board_reset
    /\ ~sameCells(copyCells, originalCells)

(***************************************************************************)
(* Properties of the win detector specification                            *)
(***************************************************************************)
Axes == <<<<0, 1>>, <<1, 0>>, <<1, 1>>, <<1, -1>>>>

holds(grid, row, col, player) ==
    <<row, col>> \in Cells /\ grid[row][col] = player

\* How many cells in a row hold player, going from (row, col) by steps of
\* (dRow, dCol) and not counting (row, col).
extent(grid, row, col, dRow, dCol, player) ==
    CHOOSE k \in 0 .. COLS :
        /\ \A j \in 1 .. k :
               holds(grid, row + j * dRow, col + j * dCol, player)
        /\ ~holds(grid, row + (k + 1) * dRow, col + (k + 1) * dCol, player)

\* The run through (row, col) on an axis, (row, col) counted, listed from
\* its negative end to its positive end.
runThrough(grid, row, col, axis, player) ==
    LET back == extent(grid, row, col, -axis[1], -axis[2], player)
        forth == extent(grid, row, col, axis[1], axis[2], player)
    IN  [i \in 1 .. (back + 1 + forth) |->
            <<row + (i - 1 - back) * axis[1], col + (i - 1 - back) * axis[2]>>]

\* The result of the first axis whose run has four cells or more.
firstFour(grid, row, col, player) ==
    LET long == {a \in 1 .. 4 :
                    Len(runThrough(grid, row, col, Axes[a], player)) >= 4}
    IN  IF long = {} THEN noWin
        ELSE LET a == CHOOSE x \in long : \A y \in long : x <= y
                 run == runThrough(grid, row, col, Axes[a], player)
             IN  [player |-> player, positions |-> <<run[1], run[2], run[3], run[4]>>]

\* C12: for a cell of the grid, checkWin returns a result exactly when on
\* one of the axes (0,1), (1,0), (1,1), (1,-1), taken in that order, the
\* run of side cells through the cell, the cell itself counted, has four
\* cells or more; the result carries side and the 4 cells of that run
\* furthest in the negative direction, negative to positive; otherwise,
\* and on the empty board, it returns None.  The board is not modified.
CheckWinFirstFour ==
    (call.op = "checkWin" /\ <<call.row, call.col>> \in Cells) =>
        /\ call.result
               = firstFour(call.before, call.row, call.col, call.player)
        /\ call.before = Board_reset => call.result = noWin
        /\ sameCells(board, call.before)

\* checkWin has returned the first four cells of a run of five or more that
\* starts two cells or more before the cell it was called with.
CheckWinFirstFourWitness ==
    /\ call.op = "checkWin"
    /\ <<call.row, call.col>> \in Cells
    /\ call.result # noWin
    /\ call.result.positions[3] # <<call.row, call.col>>
    /\ call.result.positions[4] # <<call.row, call.col>>
    /\ \E a \in 1 .. 4 :
          Len(runThrough(call.before, call.row, call.col, Axes[a],
                         call.player)) >= 5

\* C13: for every board, side and (row, col) outside the grid, checkWin
\* returns None, and no result of checkWin holds a coordinate outside the
\* grid.
CheckWinOutOfGrid ==
    call.op = "checkWin" =>
        /\ <<call.row, call.col>> \notin Cells => call.result = noWin
        /\ call.result # noWin =>
               \A i \in 1 .. Len(call.result.positions) :
                   call.result.positions[i] \in Cells

(***************************************************************************)
(* Properties of the Game: win and draw                                    *)
(***************************************************************************)
\* The step is an accepted makeMove: one move more in the history.
accepted == Len(game'.moveHistory) = Len(game.moveHistory) + 1

lastMove(g) == g.moveHistory[Len(g.moveHistory)]

lastCell(g) == <<lastMove(g).row, lastMove(g).col>>

\* The last token placed lies on four aligned cells of its side.
placedOnFour(g) ==
    \E line \in Lines :
        /\ lastCell(g) \in line
        /\ \A cell \in line : owner(g.board, cell) = lastMove(g).player

entersWin ==
    game.gameState # GAME_STATE.WIN /\ game'.gameState = GAME_STATE.WIN

\* C14: the Game enters WIN exactly on an accepted makeMove whose token
\* lies on four aligned tokens of the mover; then winner is the mover and
\* winningPositions are 4 cells of the grid, consecutive on one axis, all
\* of the winner and one of them the cell just filled; from WIN, every step
\* but startGame and reset leaves the state WIN, and winner,
\* winningPositions, the board and the history as they are.
WinOnce ==
    [][/\ entersWin <=> (accepted /\ placedOnFour(game'))
       /\ entersWin =>
              /\ lastMove(game').player = game.currentPlayer
              /\ owner(game.board, lastCell(game')) = EMPTY
              /\ game'.winner = game.currentPlayer
              /\ Len(game'.winningPositions) = 4
              /\ {game'.winningPositions[i] : i \in 1 .. 4} \in Lines
              /\ \A i \in 1 .. 4 :
                     owner(game'.board, game'.winningPositions[i])
                         = game'.winner
              /\ \E i \in 1 .. 4 :
                     game'.winningPositions[i] = lastCell(game')
       /\ game.gameState = GAME_STATE.WIN =>
              \/ gameStart
              \/ /\ game'.gameState = GAME_STATE.WIN
                 /\ game'.winner = game.winner
                 /\ game'.winningPositions = game.winningPositions
                 /\ game'.moveHistory = game.moveHistory
                 /\ sameCells(game'.board, game.board)]_vars

\* A makeMove has won by joining two runs into a run of five or more, the
\* cell filled being the last of the four reported, and the engine has then
\* been asked for a move on the won board.
WinOnceWitness ==
    /\ plies > 0
    /\ game.gameState = GAME_STATE.WIN
    /\ game.winningPositions[4] = lastCell(game)
    /\ Cardinality({line \in Lines :
                       /\ lastCell(game) \in line
                       /\ \A cell \in line :
                              owner(game.board, cell) = game.winner}) >= 2
    /\ call.op = "getBestMove"

entersDraw ==
    game.gameState # GAME_STATE.DRAW /\ game'.gameState = GAME_STATE.DRAW

filled(grid) == \A cell \in Cells : owner(grid, cell) # EMPTY

\* C15: the Game enters DRAW exactly on an accepted makeMove that leaves
\* all 42 cells filled and whose token lies on no four; an accepted
\* makeMove that fills the board and completes a four leaves WIN; and
\* whenever the state is PLAYING some column has room.
DrawOnFull ==
    [][/\ entersDraw <=>
              (accepted /\ filled(game'.board) /\ ~placedOnFour(game'))
       /\ (accepted /\ filled(game'.board) /\ placedOnFour(game')) =>
              game'.gameState = GAME_STATE.WIN
       /\ game.gameState = GAME_STATE.PLAYING =>
              openColumns(game.board) # {}
       /\ game'.gameState = GAME_STATE.PLAYING =>
              openColumns(game'.board) # {}]_vars

\* A makeMove has filled the 42nd cell without completing a four.
DrawOnFullWitness ==
    /\ plies > 0
    /\ game.gameState = GAME_STATE.DRAW
    /\ filled(game.board)
    /\ Len(game.moveHistory) = ROWS * COLS
    /\ ~placedOnFour(game)

\* A makeMove has filled the 42nd cell and completed a four.
WinOnFull ==
    /\ plies > 0
    /\ game.gameState = GAME_STATE.WIN
    /\ filled(game.board)

(***************************************************************************)
(* Properties of the application                                           *)
(***************************************************************************)
inputHandlers == {"onMouseClick", "onTouchStart"}

\* C16: whenever the timer callback of makeAIMove runs, the game is in CPU
\* mode, in state PLAYING, and PLAYER_2 is to move; so the callback places
\* no PLAYER_1 token and no token in PVP mode.
AIOnlyOnItsTurn ==
    call.op = "aiTimer" =>
        /\ call.gameMode = GAME_MODE.CPU
        /\ call.gameState = GAME_STATE.PLAYING
        /\ call.currentPlayer = PLAYER_2

\* C17: while a timer of makeAIMove is pending, no click and no touch
\* places a token; in CPU mode every PLAYER_2 token is placed by the timer
\* callback.
InputSuppressed ==
    (call.op \in inputHandlers /\ call.placed) =>
        /\ call.pending = 0
        /\ ~(call.gameMode = GAME_MODE.CPU /\ call.currentPlayer = PLAYER_2)

(***************************************************************************)
(* Properties of the search                                                *)
(***************************************************************************)
tokens(grid) == Cardinality({cell \in Cells : owner(grid, cell) # EMPTY})

\* The depths the tiers are stated to give.
tierDepth(difficulty) ==
    CASE difficulty = DIFFICULTY.EASY -> 2
      [] difficulty = DIFFICULTY.MEDIUM -> 4
      [] difficulty = DIFFICULTY.HARD -> 6

\* The tokens a board of the search holds beyond the board of the game.
hypothetical == tokens(search.board) - tokens(game.board)

\* The invocation of minimax on the board of the search returns the static
\* evaluation: no four, room left, depth 0.
evaluatedStatically ==
    /\ search.active
    /\ noFour(search.board)
    /\ openColumns(search.board) # {}
    /\ search.depth = 0

\* C18: Easy, Medium and Hard search to depths 2, 4 and 6; a board of a
\* search at depth D holds at most D tokens beyond the board getBestMove
\* was given, D minus the remaining depth of its minimax invocation, and
\* the static evaluation is applied only to boards that hold exactly D
\* more.
DepthBudget ==
    /\ searchDepth(ai.difficulty) = tierDepth(ai.difficulty)
    /\ search.active =>
           /\ search.depth >= 0
           /\ hypothetical = tierDepth(ai.difficulty) - search.depth
           /\ hypothetical <= tierDepth(ai.difficulty)
           /\ \A cell \in Cells :
                  owner(game.board, cell) # EMPTY =>
                      owner(search.board, cell) = owner(game.board, cell)
    /\ evaluatedStatically => hypothetical = tierDepth(ai.difficulty)

\* A board of a search at Hard is evaluated statically, six tokens beyond
\* the board of the game.
DepthBudgetWitness ==
    /\ evaluatedStatically
    /\ ai.difficulty = DIFFICULTY.HARD
    /\ hypothetical = 6

\* The score minimax returns for the board of the search at a given depth.
scoreAt(depth) ==
    minimax(search.board, depth, -Infinity, Infinity,
            search.isMaximizing).score

Depths == 0 .. 6

\* The side of the first four that checkWinner's scan meets: rows left to
\* right from row 0, then columns, then the two diagonals.
firstFourSide(grid) == checkWinner(grid)

\* C19 as stated: minimax returns 100000 + depth on every board with a four
\* of the engine, -(100000 + depth) on a board with a four of the opponent
\* and none of the engine, otherwise 0 on a full board, otherwise the
\* static evaluation at depth 0.
TerminalOrderEngineFirst ==
    search.active =>
        /\ hasFour(search.board, PLAYER_2) =>
               scoreAt(search.depth) = 100000 + search.depth
        /\ (~hasFour(search.board, PLAYER_2)
               /\ hasFour(search.board, PLAYER_1)) =>
               scoreAt(search.depth) = -(100000 + search.depth)
        /\ (noFour(search.board) /\ filled(search.board)) =>
               scoreAt(search.depth) = 0
        /\ evaluatedStatically =>
               scoreAt(search.depth) = evaluateBoard(search.board)

\* C19: on a board with a four of the engine and none of the opponent
\* minimax returns 100000 + depth, on a board with a four of the opponent
\* and none of the engine -(100000 + depth); when both sides have a four
\* the side of the first four met by the scan of checkWinner decides
\* between the two; otherwise minimax returns 0 on a full board, otherwise
\* the static evaluation at depth 0.  So a won board scores strictly more
\* with more depth left (fewer plies played) and a lost board strictly
\* more with less depth left.
TerminalOrder ==
    search.active =>
        /\ (hasFour(search.board, PLAYER_2)
               /\ ~hasFour(search.board, PLAYER_1)) =>
               /\ scoreAt(search.depth) = 100000 + search.depth
               /\ \A d, e \in Depths : d > e => scoreAt(d) > scoreAt(e)
        /\ (~hasFour(search.board, PLAYER_2)
               /\ hasFour(search.board, PLAYER_1)) =>
               /\ scoreAt(search.depth) = -(100000 + search.depth)
               /\ \A d, e \in Depths : d > e => scoreAt(d) < scoreAt(e)
        /\ (hasFour(search.board, PLAYER_2)
               /\ hasFour(search.board, PLAYER_1)) =>
               scoreAt(search.depth)
                   = IF firstFourSide(search.board) = PLAYER_2
                     THEN 100000 + search.depth
                     ELSE -(100000 + search.depth)
        /\ (noFour(search.board) /\ filled(search.board)) =>
               \A d \in Depths : scoreAt(d) = 0
        /\ evaluatedStatically =>
               scoreAt(search.depth) = evaluateBoard(search.board)

\* minimax is entered at depth 0 on a board with a four: the tests for a
\* winner come before the depth test.
TerminalOrderWitness ==
    /\ search.active
    /\ search.depth = 0
    /\ hasFour(search.board, PLAYER_1)
    /\ ~hasFour(search.board, PLAYER_2)
    /\ noFour(game.board)

\* minimax is entered on a board with a four of each side.
TerminalOrderBoth ==
    /\ search.active
    /\ hasFour(search.board, PLAYER_1)
    /\ hasFour(search.board, PLAYER_2)

\* minimax is entered on a full board without a four.
TerminalOrderFull ==
    /\ search.active
    /\ noFour(search.board)
    /\ filled(search.board)

\* minimax is entered with depth left on a board with a four of either side.
TerminalOrderWon ==
    /\ search.active
    /\ search.depth > 0
    /\ hasFour(search.board, PLAYER_2)

TerminalOrderLost ==
    /\ search.active
    /\ search.depth > 0
    /\ hasFour(search.board, PLAYER_1)

(***************************************************************************)
(* Properties of the two win detectors                                     *)
(***************************************************************************)
\* The board of the game without its last token.
beforeLast(g) ==
    [g.board EXCEPT ![lastMove(g).row][lastMove(g).col] = EMPTY]

\* checkWin as makeMove calls it: on the cell and side of the last move.
checkWinLast(g) ==
    checkWin(g.board, lastMove(g).row, lastMove(g).col, lastMove(g).player)

\* C20: on every board of a game with a last move, placed by side s on a
\* board without a four, checkWin on the cell and side of that move returns
\* a result exactly when checkWinner returns s, and None exactly when
\* checkWinner returns null.
DetectorsAgree ==
    (Len(game.moveHistory) > 0 /\ noFour(beforeLast(game))) =>
        /\ checkWinLast(game) # noWin
               <=> checkWinner(game.board) = lastMove(game).player
        /\ checkWinLast(game) = noWin <=> checkWinner(game.board) = null

\* A makeMove has completed a four, and both detectors report it.
DetectorsAgreeWitness ==
    /\ plies > 0
    /\ noFour(beforeLast(game))
    /\ checkWinLast(game) # noWin
    /\ checkWinner(game.board) = lastMove(game).player

among(window, v) == Cardinality({i \in 1 .. 4 : window[i] = v})

\* What a window earns the engine and what it costs it.
earned(window) ==
    CASE among(window, PLAYER_2) = 4 -> SCORE.WIN
      [] among(window, PLAYER_2) = 3 /\ among(window, EMPTY) = 1
             -> SCORE.THREE_IN_ROW
      [] among(window, PLAYER_2) = 2 /\ among(window, EMPTY) = 2
             -> SCORE.TWO_IN_ROW
      [] OTHER -> 0

cost(window) ==
    CASE among(window, PLAYER_1) = 4 -> SCORE.WIN
      [] among(window, PLAYER_1) = 3 /\ among(window, EMPTY) = 1
             -> SCORE.BLOCK_THREE
      [] among(window, PLAYER_1) = 2 /\ among(window, EMPTY) = 2
             -> SCORE.BLOCK_TWO
      [] OTHER -> 0

\* C23: WIN > THREE_IN_ROW > TWO_IN_ROW > 0; BLOCK_THREE lies strictly
\* between TWO_IN_ROW and THREE_IN_ROW, closer to THREE_IN_ROW; and
\* evaluateWindow returns what the window earns (WIN for four of the
\* engine, THREE_IN_ROW for three and one empty, TWO_IN_ROW for two and two
\* empty) minus what it costs (WIN, BLOCK_THREE, BLOCK_TWO for the same
\* patterns of the opponent), and 0 for every other window.
WindowWeights ==
    /\ SCORE.WIN > SCORE.THREE_IN_ROW
    /\ SCORE.THREE_IN_ROW > SCORE.TWO_IN_ROW
    /\ SCORE.TWO_IN_ROW > 0
    /\ SCORE.TWO_IN_ROW < SCORE.BLOCK_THREE
    /\ SCORE.BLOCK_THREE < SCORE.THREE_IN_ROW
    /\ SCORE.THREE_IN_ROW - SCORE.BLOCK_THREE
           < SCORE.BLOCK_THREE - SCORE.TWO_IN_ROW
    /\ call.op = "evaluateWindow" =>
           /\ call.result = earned(call.window) - cost(call.window)
           /\ (earned(call.window) = 0 /\ cost(call.window) = 0) =>
                  call.result = 0

\* evaluateWindow has returned 0 for a window of three engine tokens and
\* one opponent token.
WindowWeightsWitness ==
    /\ call.op = "evaluateWindow"
    /\ among(call.window, PLAYER_2) = 3
    /\ among(call.window, PLAYER_1) = 1
    /\ call.result = 0

(***************************************************************************)
(* Properties of the depth of the search                                   *)
(***************************************************************************)
\* The current minimax invocation received a depth one less than its
\* caller's, not negative, and has at most 7 children to expand.
steppedDown ==
    /\ ~search.depth.isNaN
    /\ ~search.callerDepth.isNaN
    /\ search.depth.n = search.callerDepth.n - 1
    /\ search.depth.n >= 0
    /\ Len(getValidMoves(search.board)) <= COLS

\* C22: every minimax invocation of a getBestMove call receives a depth
\* exactly one less than its caller's and never a negative one, so the
\* recursion stops at depth 0 at the latest; each node has at most 7
\* children; this for every board and every value of the difficulty.
DepthStepsDown == search.active => steppedDown

\* The same for the values of the difficulty that DEPTH_CONFIG does not
\* inherit: the three tiers and unknown names.
DepthStepsDownOwn ==
    (search.active /\ ai.difficulty \notin InheritedKeys) => steppedDown

\* At such values the chain is never longer than the deepest tier's depth.
DepthAtMostSix ==
    (search.active /\ ai.difficulty \notin InheritedKeys) =>
        /\ search.level + search.depth.n = configuredDepth(ai.difficulty).n
        /\ search.level <= DEPTH_CONFIG[DIFFICULTY.HARD]

\* An invocation with depth 0 on a board that is neither won nor full.
DepthZeroStops ==
    /\ search.active
    /\ isZero(search.depth)
    /\ checkWinner(search.board) = null
    /\ ~isBoardFull(search.board)
    /\ ai.difficulty = "expert"

\* A seventh nested invocation, on a board that is neither won nor full.
DepthSeventhLevel ==
    /\ search.active
    /\ search.level = 7
    /\ checkWinner(search.board) = null
    /\ ~isBoardFull(search.board)

(***************************************************************************)
(* Properties of the Game's moves                                          *)
(***************************************************************************)
\* C24: makeMove(col) called when the state is not PLAYING (WAITING, WIN,
\* DRAW, ANIMATING) or when col is full returns null, leaves every field
\* of the Game as it was and calls neither onTokenPlaced nor
\* onStateChange; so a won or drawn Game takes no further token.
RejectedMove ==
    (/\ call.op = "makeMove"
     /\ \/ call.before.gameState # GAME_STATE.PLAYING
        \/ isColumnFull(call.before.board, call.col))
    => /\ call.move = noMove
       /\ game = call.before
       /\ call.events = << >>

\* makeMove has been rejected in the given state.
rejectedIn(state) ==
    /\ call.op = "makeMove"
    /\ call.before.gameState = state
    /\ call.move = noMove

\* makeMove has been rejected on a won Game for a column with room.
RejectedMoveWitness ==
    /\ rejectedIn(GAME_STATE.WIN)
    /\ ~isColumnFull(call.before.board, call.col)
    /\ tokens(game.board) < ROWS * COLS

RejectedWaiting == rejectedIn(GAME_STATE.WAITING)
RejectedDraw == rejectedIn(GAME_STATE.DRAW)
RejectedAnimating ==
    rejectedIn(GAME_STATE.ANIMATING) /\ ~isColumnFull(game.board, call.col)
RejectedFullColumn ==
    /\ rejectedIn(GAME_STATE.PLAYING)
    /\ isColumnFull(call.before.board, call.col)

\* How many tokens of a side the grid holds.
tokensOf(grid, player) ==
    Cardinality({cell \in Cells : owner(grid, cell) = player})

\* C25: after startGame PLAYER_1 is to move; an accepted makeMove places
\* the token of the player who was to move and switches currentPlayer
\* exactly when the move does not end the game; in every state PLAYER_1
\* has as many tokens as PLAYER_2 or one more, and moveHistory is as long
\* as the number of non-empty cells.
Alternation ==
    /\ call.op = "startGame" => game.currentPlayer = PLAYER_1
    /\ (call.op = "makeMove" /\ call.move # noMove) =>
           /\ call.move.player = call.before.currentPlayer
           /\ owner(call.before.board, <<call.move.row, call.move.col>>) = EMPTY
           /\ owner(game.board, <<call.move.row, call.move.col>>)
                  = call.before.currentPlayer
           /\ tokens(game.board) = tokens(call.before.board) + 1
           /\ game.gameState \in
                  {GAME_STATE.PLAYING, GAME_STATE.WIN, GAME_STATE.DRAW}
           /\ (game.currentPlayer # call.before.currentPlayer)
                  <=> game.gameState = GAME_STATE.PLAYING
    /\ tokensOf(game.board, PLAYER_1) - tokensOf(game.board, PLAYER_2)
           \in {0, 1}
    /\ Len(game.moveHistory) = tokens(game.board)

\* PLAYER_2 has moved after PLAYER_1 in a game started by startGame, and
\* PLAYER_1 is to move again.
AlternationWitness ==
    /\ call.op = "makeMove"
    /\ call.move # noMove
    /\ call.move.player = PLAYER_2
    /\ game.currentPlayer = PLAYER_1
    /\ game.gameState = GAME_STATE.PLAYING
    /\ Len(game.moveHistory) = 2
    /\ game.moveHistory[1].player = PLAYER_1

\* A winning move has left its player as currentPlayer.
AlternationStopsAtWin ==
    /\ call.op = "makeMove"
    /\ call.move # noMove
    /\ game.gameState = GAME_STATE.WIN
    /\ game.currentPlayer = call.before.currentPlayer

(***************************************************************************)
(* Properties of the app's tokens and timers                               *)
(***************************************************************************)
\* The entries of placedTokens lying on a cell.
entriesAt(cell) ==
    {i \in 1 .. Len(app.placedTokens) :
        <<app.placedTokens[i].row, app.placedTokens[i].col>> = cell}

\* C28: the entries of placedTokens correspond one-to-one with the
\* non-empty cells of game.board, with the same row, column and player;
\* and when a WIN is notified every winning position has its entry in
\* placedTokens already, so each winning token is found and animated.
InSync ==
    /\ \A cell \in Cells :
           IF owner(game.board, cell) = EMPTY
           THEN entriesAt(cell) = {}
           ELSE /\ Cardinality(entriesAt(cell)) = 1
                /\ \A i \in entriesAt(cell) :
                       app.placedTokens[i].player = owner(game.board, cell)
    /\ \A i \in 1 .. Len(app.placedTokens) :
           <<app.placedTokens[i].row, app.placedTokens[i].col>> \in Cells
    /\ game.gameState = GAME_STATE.WIN =>
           /\ app.winAnimations = game.winningPositions
           /\ \A k \in 1 .. Len(game.winningPositions) :
                  findToken(app.placedTokens, game.winningPositions[k])

\* A click has won the game: seven tokens placed, four of them animated.
InSyncWitness ==
    /\ call.op = "onMouseClick"
    /\ call.placed
    /\ game.gameState = GAME_STATE.WIN
    /\ Len(app.placedTokens) = 7
    /\ Len(app.winAnimations) = 4

\* The timer callback has won the game.
InSyncTimerWin ==
    /\ call.op = "aiTimer"
    /\ call.placed
    /\ game.gameState = GAME_STATE.WIN
    /\ game.winner = PLAYER_2

\* A restart has emptied the board and placedTokens after moves were made.
InSyncAfterRestart ==
    /\ call = noCall
    /\ app.placedTokens = << >>
    /\ tokens(game.board) = 0
    /\ app.timers > 0

\* Two firings of AI-move timers in a row, each placing a token.
secondAIToken ==
    /\ call.op = "aiTimer"
    /\ call.placed
    /\ call'.op = "aiTimer"
    /\ call'.placed

\* C26: in every interleaving of human moves, restartGame, changeGameMode
\* and timer firings at most one AI-move timer is pending, and the timer
\* callback does not place two tokens with no human move in between.
OneAIMove == [](app.timers <= 1) /\ [][~secondAIToken]_vars

\* The two halves of C26 on their own.
OneTimerPending == app.timers <= 1
OneTokenPerTurn == [][~secondAIToken]_vars

\* It is the engine's turn.
cpuTurn ==
    /\ game.gameMode = GAME_MODE.CPU
    /\ game.gameState = GAME_STATE.PLAYING
    /\ game.currentPlayer = PLAYER_2

\* A timer is pending and the bounds of the model keep its callback from
\* running.
timerHeldBack ==
    /\ app.timers > 0
    /\ \/ movesMade(game) > MaxAppMoves
       \/ ~withinBudget(game.board, ai.difficulty)

\* C27: whenever it is the engine's turn an AI-move timer is pending, so,
\* pending timers firing eventually, the engine's turn always comes to an
\* end: the game never stays on the engine's turn forever.
CPUGetsMove ==
    /\ [](cpuTurn => app.timers > 0)
    /\ cpuTurn ~> (~cpuTurn \/ timerHeldBack)

\* The two halves of C27 on their own.
TimerOnCPUTurn == cpuTurn => app.timers > 0
CPUTurnEnds == cpuTurn ~> (~cpuTurn \/ timerHeldBack)

(***************************************************************************)
(* Properties of isWinningMove and getWinningMoves                         *)
(***************************************************************************)
\* checkWin gives a result on a copy of the grid with player's token
\* dropped into col, called on the cell where the token landed.
winsOnClone(grid, col, player) ==
    LET dropped == dropToken(grid, col, player)
    IN  checkWin(dropped.grid, dropped.row, col, player) # noWin

\* C29: isWinningMove(board, col, player) leaves every cell of the board
\* as it was, returns false for a full or out-of-range column, and
\* otherwise returns true exactly when checkWin gives a result on a clone
\* with the token dropped; getWinningMoves returns, in ascending order,
\* exactly the columns for which isWinningMove is true, and leaves the
\* board as it was.
WinningMoves ==
    /\ call.op = "isWinningMove" =>
           /\ sameCells(board, call.before)
           /\ IF call.col \notin Cols \/ ~hasRoom(call.before, call.col)
              THEN call.result = FALSE
              ELSE call.result
                       <=> winsOnClone(call.before, call.col, call.player)
    /\ call.op = "getWinningMoves" =>
           /\ sameCells(board, call.before)
           /\ \A i \in 1 .. Len(call.result) - 1 :
                  call.result[i] < call.result[i + 1]
           /\ {call.result[i] : i \in 1 .. Len(call.result)}
                  = {col \in Cols :
                        isWinningMove(call.before, col, call.player).result}

\* isWinningMove has returned true on a board of a game in progress.
WinningMovesWitness ==
    /\ call.op = "isWinningMove"
    /\ call.result
    /\ tokens(call.before) > 4
    /\ sameCells(board, call.before)

\* The other cases of C29.
WinningMoveFullColumn ==
    /\ call.op = "isWinningMove"
    /\ call.col \in Cols
    /\ ~hasRoom(call.before, call.col)
WinningMoveOutOfRange ==
    call.op = "isWinningMove" /\ call.col \notin Cols
WinningMovesTwo ==
    /\ call.op = "getWinningMoves"
    /\ Len(call.result) >= 2
    /\ \E col \in Cols : ~hasRoom(call.before, col)

(***************************************************************************)
(* Properties of the static evaluation's magnitude                         *)
(***************************************************************************)
\* The current minimax invocation returns evaluateBoard(board).
staticCall == search.active /\ isTerminal(search)
                  /\ checkWinner(search.board) = null
                  /\ ~isBoardFull(search.board)

\* Some window of the grid holds four tokens of one side: a 4-token branch
\* of evaluateWindow is taken when the grid is evaluated.
fourTokenBranch(grid) ==
    \E i \in 1 .. Len(allWindows) : \E player \in Players :
        countCells(windowCells(grid, allWindows[i]), player) = 4

\* C30: a window without four tokens of one side is worth at most
\* THREE_IN_ROW either way, and all windows at that worth plus the center
\* bonuses stay below SCORE.WIN, so on every board without a four the
\* absolute value of evaluateBoard is less than SCORE.WIN; every board minimax evaluates statically is
\* without a four, so no 4-token branch of evaluateWindow is taken there;
\* and a value minimax returns has magnitude SCORE.WIN or more only when
\* it is SCORE.WIN plus the depth left at a won or lost board.
HeuristicBelowWin ==
    /\ \A window \in [1 .. 4 -> {EMPTY, PLAYER_1, PLAYER_2}] :
           (\A player \in Players : countCells(window, player) < 4) =>
               Abs(evaluateWindow(window)) <= SCORE.THREE_IN_ROW
    /\ Len(allWindows) * SCORE.THREE_IN_ROW + ROWS * SCORE.CENTER_BONUS
           < SCORE.WIN
    /\ noFour(game.board) => Abs(evaluateBoard(game.board)) < SCORE.WIN
    /\ search.active =>
           /\ noFour(search.board) =>
                  Abs(evaluateBoard(search.board)) < SCORE.WIN
           /\ isTerminal(search) =>
                  (Abs(scoreAt(search.depth)) >= SCORE.WIN
                      <=> ~noFour(search.board))
    /\ staticCall =>
           /\ noFour(search.board)
           /\ ~fourTokenBranch(search.board)
           /\ scoreAt(search.depth) = evaluateBoard(search.board)
           /\ Abs(scoreAt(search.depth)) < SCORE.WIN
    /\ call.op = "getBestMove" =>
           \A i \in 1 .. Len(call.scores) :
               Abs(call.scores[i]) >= SCORE.WIN =>
                   Abs(call.scores[i]) - SCORE.WIN
                       \in 0 .. searchDepth(call.difficulty) - 1

\* A board with three tokens of one side in an open window is evaluated
\* statically to a value other than 0.
HeuristicBelowWinWitness ==
    /\ staticCall
    /\ \E i \in 1 .. Len(allWindows) : \E player \in Players :
           /\ countCells(windowCells(search.board, allWindows[i]), player) = 3
           /\ countCells(windowCells(search.board, allWindows[i]), EMPTY) = 1
    /\ evaluateBoard(search.board) # 0

\* getBestMove has had a root score of magnitude SCORE.WIN or more.
HeuristicDecidedRoot ==
    /\ call.op = "getBestMove"
    /\ \E i \in 1 .. Len(call.scores) : Abs(call.scores[i]) >= SCORE.WIN

\* A static evaluation of magnitude 100 or more.
HeuristicLarge == staticCall /\ Abs(evaluateBoard(search.board)) >= 100

============================================================================
